---- MODULE Spec2Model ----
(***************************************************************************)
(* The NUANMB -> Maya .anim converter (src/nuanmb_to_maya) as a state      *)
(* machine: the converter's constructor resolves the skeleton's hierarchy  *)
(* order, convert() walks the bones and the dataset's nodes and fills the  *)
(* writer's emission sequence, write() emits it.  A file that cannot be    *)
(* read, or a dataset that cannot be parsed, ends the run with exit code 1.*)
(*                                                                         *)
(* Numbers.  Frame indices and channel values are integers; frame rates    *)
(* are integers in hundredths of a frame per second (29.97 is 2997).       *)
(* Quaternions are integer 4-vectors: quat_to_euler divides by the norm    *)
(* (math_utils.py:30), so a quaternion stands for every positive multiple  *)
(* of itself, and the quaternions enumerated are those whose rotation      *)
(* matrix is a signed permutation matrix, whose Euler angles are whole     *)
(* multiples of 90 degrees.  Angles are exact: floating-point rounding is  *)
(* not modelled.                                                           *)
(***************************************************************************)
EXTENDS Integers, Sequences, FiniteSets, TLC

VARIABLES
    pc,             \* position of the run: "new", "constructed", "converting", "written", "failed"
    maya_fps,       \* NuanmbToMayaConverter.maya_fps, in hundredths of a frame per second
    time_unit,      \* NuanmbToMayaConverter.time_unit
    skeleton_data,  \* the decoded skeleton JSON
    bone_order,     \* NuanmbToMayaConverter.bone_order
    input_data,     \* the input file: its decoded JSON, or why it cannot be read
    anim_data,      \* the AnimData parser.parse() returned
    all_nodes,      \* convert(): the nodes of the Transform groups
    bone_idx,       \* convert(): position of the loop over bone_order (1-based)
    node_idx,       \* convert(): position of the loop over all_nodes (1-based)
    processed,      \* names handed to _process_bone so far, in call order
    writer,         \* the MayaAnimWriter: [curves, empty_bones, write_order]
    output,         \* the items write() has emitted to the file, in order
    exit_code,      \* what main() returned: 0 or 1, -1 while it runs
    transform_in,   \* the Transform (T, R, S) handed to build_matrix4x4
    mat,            \* the 4x4 matrix build_matrix4x4 returned, <<>> before
    decomposed      \* what matrix_to_trans_quat_scale returned, <<>> before

vars == <<pc, maya_fps, time_unit, skeleton_data, bone_order, input_data, anim_data,
          all_nodes, bone_idx, node_idx, processed, writer, output, exit_code,
          transform_in, mat, decomposed>>

-----------------------------------------------------------------------------
(* Bounds of the model. *)

\* longest skeleton bone list enumerated for the hierarchy resolver
MaxBones == 3
\* longest value sequence of a track
MaxFrames == 3
\* most nodes of the dataset in the structural runs
MaxNodes == 2
\* calls of add_curve and add_empty_bone on a writer driven directly
MaxItems == 3
\* the greatest target rate of the time-unit runs, in frames per second
MaxUnitFps == 70
\* the greatest component of a scale handed to build_matrix4x4
MaxScale == 3
\* longest value sequence of a track in the two-bone runs
MaxTurns == 2

(* Program constants. *)

\* the source's sample rate: fps_conversion = maya_fps / 60.0
SourceFps == 60
\* _correct_rotation_winding: the half turn and the full turn, in degrees
HalfTurn == 180
FullTurn == 360

-----------------------------------------------------------------------------
(* Small helpers on sequences. *)

Range(s) == {s[i] : i \in 1..Len(s)}

RECURSIVE Concat(_)
\* the concatenation of a sequence of sequences
Concat(ss) == IF Len(ss) = 0 THEN <<>> ELSE Head(ss) \o Concat(Tail(ss))

\* the element of a one-element set; "TheOnly({e(v) : v \in {d}})" is
\* "LET v == d IN e(v)" with d evaluated once
TheOnly(S) == CHOOSE e \in S : TRUE

\* all sequences over S of length lo..hi
SeqsOf(S, lo, hi) == UNION {[1..n -> S] : n \in lo..hi}

-----------------------------------------------------------------------------
(* models.py: Vector3, Vector4, Transform, MayaKeyframe, MayaAnimCurve *)

Vector3(a, b, c) == [x |-> a, y |-> b, z |-> c]
Vector4(a, b, c, d) == [x |-> a, y |-> b, z |-> c, w |-> d]
Transform(t, r, s) == [translation |-> t, rotation |-> r, scale |-> s]
Track(n, vals) == [name |-> n, values |-> vals]
Node(n, trks) == [name |-> n, tracks |-> trks]
Group(gt, nds) == [group_type |-> gt, nodes |-> nds]
MayaKeyframe(f, v) == [frame |-> f, value |-> v]
MayaAnimCurve(path, attr, obj, idx, ks) ==
    [attribute_path |-> path, attribute_name |-> attr, object_name |-> obj,
     input_type |-> 0, output_type |-> 0, index |-> idx, keys |-> ks]

-----------------------------------------------------------------------------
(* math_utils.py *)

\* np.arctan2 in degrees, on the arguments a signed permutation matrix gives
\* (one of them zero) and on the diagonals
arctan2_deg(yy, xx) ==
    CASE yy = 0 /\ xx >= 0 -> 0
      [] yy = 0 /\ xx < 0 -> 180
      [] xx = 0 /\ yy > 0 -> 90
      [] xx = 0 /\ yy < 0 -> -90
      [] yy = xx /\ xx > 0 -> 45
      [] yy = -xx /\ xx > 0 -> -45
      [] yy = -xx /\ xx < 0 -> 135
      [] yy = xx /\ xx < 0 -> -135

\* np.sqrt of a perfect square
isqrt(v) == CHOOSE r \in 0..v : r * r = v

\* the squared norm x*x + y*y + z*z + w*w
norm2(q) == q.x * q.x + q.y * q.y + q.z * q.z + q.w * q.w

\* rot_mat of quat_to_euler, times the squared norm n2 of q (the code divides
\* q by its norm first; atan2 and the singular test are unchanged by the
\* positive factor n2)
quat_rot_mat(q) ==
    LET n2 == norm2(q) IN
    << << n2 - 2 * (q.y * q.y + q.z * q.z), 2 * (q.x * q.y - q.w * q.z), 2 * (q.x * q.z + q.w * q.y) >>,
       << 2 * (q.x * q.y + q.w * q.z), n2 - 2 * (q.x * q.x + q.z * q.z), 2 * (q.y * q.z - q.w * q.x) >>,
       << 2 * (q.x * q.z - q.w * q.y), 2 * (q.y * q.z + q.w * q.x), n2 - 2 * (q.x * q.x + q.y * q.y) >> >>

\* the XYZ angles of a rotation matrix, sy = sqrt(m00^2 + m10^2) given
euler_of_rot_mat(rot_mat, sy) ==
    IF ~(sy = 0)
    THEN Vector3(arctan2_deg(rot_mat[3][2], rot_mat[3][3]),
                 arctan2_deg(-rot_mat[3][1], sy),
                 arctan2_deg(rot_mat[2][1], rot_mat[1][1]))
    ELSE Vector3(arctan2_deg(-rot_mat[2][3], rot_mat[2][2]),
                 arctan2_deg(-rot_mat[3][1], sy),
                 0)

\* float('nan'), where a malformed dataset carries it: a value apart from
\* every number of the model.  The operators that may meet it treat it as
\* IEEE 754 does: arithmetic on it gives NaN, and every comparison with it
\* is False
NaN == -1000000

\* some component of q is NaN
has_nan(q) == NaN \in {q.x, q.y, q.z, q.w}

\* -v
negated(v) == IF v = NaN THEN NaN ELSE -v

\* quat_to_euler(q, order='XYZ'): Euler angles in degrees.  With a NaN
\* component norm is NaN, "norm < 1e-10" is False, and the quotients, the
\* matrix, sy ("sy < 1e-6" False) and the three arctan2 are NaN.  Otherwise
\* "norm < 1e-10" is, of the quaternions modelled, norm = 0, and "singular"
\* (sy < 1e-6) is sy = 0
quat_to_euler(q) ==
    IF has_nan(q)
    THEN Vector3(NaN, NaN, NaN)
    ELSE IF norm2(q) = 0
    THEN Vector3(0, 0, 0)
    ELSE TheOnly({ euler_of_rot_mat(rot_mat,
                       isqrt(rot_mat[1][1] * rot_mat[1][1] + rot_mat[2][1] * rot_mat[2][1])) :
                   rot_mat \in {quat_rot_mat(q)} })

\* quat_multiply(q1, q2): the Hamilton product q1 * q2
quat_multiply(q1, q2) ==
    Vector4(q1.w * q2.x + q1.x * q2.w + q1.y * q2.z - q1.z * q2.y,
            q1.w * q2.y - q1.x * q2.z + q1.y * q2.w + q1.z * q2.x,
            q1.w * q2.z + q1.x * q2.y - q1.y * q2.x + q1.z * q2.w,
            q1.w * q2.w - q1.x * q2.x - q1.y * q2.y - q1.z * q2.z)

\* axis_angle_to_quat(axis, angle_deg) for the two angles the converter uses,
\* times sqrt 2: sin and cos of the half angle are +-sqrt(2)/2
axis_angle_to_quat(axis, angle_deg) ==
    LET s == IF angle_deg = 90 THEN 1 ELSE -1
        c == 1
    IN Vector4(axis.x * s, axis.y * s, axis.z * s, c)

\* build_matrix4x4(t, r, s): T*R*S, the rotation columns scaled by s.  The
\* code is handed a unit quaternion; r stands for r / |r|, so that the
\* entry 1 - 2 * (yy + zz) of the code is (n2 - 2 * (yy + zz)) / n2 on r, a
\* whole number for the quaternions modelled.  For the zero quaternion the
\* code's rot_mat is the identity.
build_matrix4x4(t, r, s) ==
    LET n2 == norm2(r)
        rot_mat == IF n2 = 0
                   THEN << <<1, 0, 0>>, <<0, 1, 0>>, <<0, 0, 1>> >>
                   ELSE [i \in 1..3 |-> [j \in 1..3 |-> quat_rot_mat(r)[i][j] \div n2]]
    IN << << rot_mat[1][1] * s.x, rot_mat[1][2] * s.y, rot_mat[1][3] * s.z, t.x >>,
          << rot_mat[2][1] * s.x, rot_mat[2][2] * s.y, rot_mat[2][3] * s.z, t.y >>,
          << rot_mat[3][1] * s.x, rot_mat[3][2] * s.y, rot_mat[3][3] * s.z, t.z >>,
          << 0, 0, 0, 1 >> >>

\* np.linalg.norm(M[i, :3]): the norm of row i of the 3x3 part
row_norm(M, i) == isqrt(M[i][1] * M[i][1] + M[i][2] * M[i][2] + M[i][3] * M[i][3])

\* "if scale_x != 0: R[0, :] /= scale_x" and the same for rows 1 and 2: the
\* 3x3 part of M, each row divided by its scale unless that is 0
normalize_rows(M, scales) ==
    [i \in 1..3 |-> [j \in 1..3 |->
        IF scales[i] # 0 THEN M[i][j] \div scales[i] ELSE M[i][j]]]

\* quat_from_matrix(matrix): the quaternion of the 3x3 part, its rows
\* normalized first unless all three norms are 1, by the trace method's four
\* branches.  The value is the code's quaternion times the positive number S
\* of the branch taken (w * S = S * S / 4, x * S = R[2, 1] - R[1, 2], ...),
\* which keeps it in whole numbers
quat_from_matrix(matrix) ==
    LET scales == << row_norm(matrix, 1), row_norm(matrix, 2), row_norm(matrix, 3) >>
        R == IF scales[1] # 1 \/ scales[2] # 1 \/ scales[3] # 1
             THEN normalize_rows(matrix, scales)
             ELSE [i \in 1..3 |-> [j \in 1..3 |-> matrix[i][j]]]
        tr == R[1][1] + R[2][2] + R[3][3]
    IN IF tr > 0
       THEN Vector4(R[3][2] - R[2][3], R[1][3] - R[3][1], R[2][1] - R[1][2], tr + 1)
       ELSE IF R[1][1] > R[2][2] /\ R[1][1] > R[3][3]
       THEN Vector4(1 + R[1][1] - R[2][2] - R[3][3], R[1][2] + R[2][1], R[1][3] + R[3][1],
                    R[3][2] - R[2][3])
       ELSE IF R[2][2] > R[3][3]
       THEN Vector4(R[1][2] + R[2][1], 1 + R[2][2] - R[1][1] - R[3][3], R[2][3] + R[3][2],
                    R[1][3] - R[3][1])
       ELSE Vector4(R[1][3] + R[3][1], R[2][3] + R[3][2], 1 + R[3][3] - R[1][1] - R[2][2],
                    R[2][1] - R[1][2])

\* matrix_to_trans_quat_scale(matrix): (t, q, s), t the last column, s the
\* norms of the rows, q the quaternion of the row-normalized 3x3 part
matrix_to_trans_quat_scale(matrix) ==
    LET scales == << row_norm(matrix, 1), row_norm(matrix, 2), row_norm(matrix, 3) >>
    IN [t |-> Vector3(matrix[1][4], matrix[2][4], matrix[3][4]),
        q |-> quat_from_matrix(normalize_rows(matrix, scales)),
        s |-> Vector3(scales[1], scales[2], scales[3])]

\* the product of two 4x4 matrices (numpy's @)
matmul(A, B) ==
    [i \in 1..4 |-> [j \in 1..4 |->
        A[i][1] * B[1][j] + A[i][2] * B[2][j] + A[i][3] * B[3][j] + A[i][4] * B[4][j]]]

-----------------------------------------------------------------------------
(* converter.py: the time unit.  Rates are in hundredths of a frame per    *)
(* second, which holds the table's keys 29.97 and 59.94 exactly.           *)

\* fps_map, in the order the dictionary is written
fps_map ==
    << <<1500, "game">>, <<2400, "film">>, <<2500, "pal">>, <<2997, "ntsc">>,
       <<3000, "ntsc">>, <<4800, "show">>, <<5000, "palf">>, <<5994, "ntscf">>,
       <<6000, "ntscf">> >>

\* abs(x - fps)
fps_distance(x, fps) == IF x >= fps THEN x - fps ELSE fps - x

\* a variant that takes the greatest key not above fps (the first key when
\* there is none)
determine_time_unit_floor(fps) ==
    IF fps < fps_map[1][1] THEN fps_map[1][2]
    ELSE fps_map[CHOOSE i \in 1..Len(fps_map) :
                     /\ fps_map[i][1] <= fps
                     /\ \A j \in 1..Len(fps_map) : fps_map[j][1] <= fps => j <= i][2]

\* _determine_time_unit(fps): min() returns the first key of least distance
determine_time_unit(fps) ==
    fps_map[CHOOSE i \in 1..Len(fps_map) :
                /\ \A j \in 1..Len(fps_map) :
                      fps_distance(fps_map[i][1], fps) <= fps_distance(fps_map[j][1], fps)
                /\ \A j \in 1..(i - 1) :
                      fps_distance(fps_map[j][1], fps) > fps_distance(fps_map[i][1], fps)][2]

-----------------------------------------------------------------------------
(* converter.py: the hierarchy resolver.  Bone indices are 0-based as in   *)
(* the code: bone i is bones[i + 1].  A bone without parent_index (None in *)
(* the code) is a record without that field.                               *)

has_parent(bone) == "parent_index" \in DOMAIN bone

\* bone_names
bone_names(bones) == [i \in 1..Len(bones) |-> bones[i].name]

\* root_indices: the bones without parent_index, in list order
root_indices(bones) ==
    LET F[i \in 0..Len(bones)] ==
            IF i = 0 THEN <<>>
            ELSE IF has_parent(bones[i]) THEN F[i - 1] ELSE Append(F[i - 1], i - 1)
    IN F[Len(bones)]

\* a variant that lists the children of p last to first
children_map_reversed(bones, p) ==
    LET F[i \in 0..Len(bones)] ==
            IF i = 0 THEN <<>>
            ELSE IF has_parent(bones[i]) /\ bones[i].parent_index = p
                 THEN <<i - 1>> \o F[i - 1] ELSE F[i - 1]
    IN F[Len(bones)]

\* children_map[p]: the bones that declare parent_index p, in list order
children_map(bones, p) ==
    LET F[i \in 0..Len(bones)] ==
            IF i = 0 THEN <<>>
            ELSE IF has_parent(bones[i]) /\ bones[i].parent_index = p
                 THEN Append(F[i - 1], i - 1) ELSE F[i - 1]
    IN F[Len(bones)]

RECURSIVE dfs(_, _, _), dfs_each(_, _, _, _)
\* dfs written post-order: a bone is appended after its children
dfs_postorder(bones, bone_index, st) ==
    IF bone_index \in st.visited
    THEN st
    ELSE TheOnly({ [visited |-> st2.visited,
                    sorted_order |-> Append(st2.sorted_order, bone_index)] :
                   st2 \in {dfs_each(bones, children_map(bones, bone_index), 1,
                                [visited |-> st.visited \cup {bone_index},
                                 sorted_order |-> st.sorted_order])} })

\* dfs(bone_index) on the state st = [visited, sorted_order]
dfs(bones, bone_index, st) ==
    IF bone_index \in st.visited
    THEN st
    ELSE LET st1 == [visited |-> st.visited \cup {bone_index},
                     sorted_order |-> Append(st.sorted_order, bone_index)]
         IN dfs_each(bones, children_map(bones, bone_index), 1, st1)

\* for idx in (a list of indices): dfs(idx), from position k on
dfs_each(bones, indices, k, st) ==
    IF k > Len(indices) THEN st
    ELSE dfs_each(bones, indices, k + 1, dfs(bones, indices[k], st))

\* the orphan pass left out
orphans_dropped(bones, visited) == <<>>

\* the bones never visited, in list order
orphans(bones, visited) ==
    LET F[i \in 0..Len(bones)] ==
            IF i = 0 THEN <<>>
            ELSE IF (i - 1) \in visited THEN F[i - 1] ELSE Append(F[i - 1], i - 1)
    IN F[Len(bones)]

\* the indices of the bones in the order _topological_sort_bones puts them
sorted_indices(bones) ==
    LET st == dfs_each(bones, root_indices(bones), 1, [visited |-> {}, sorted_order |-> <<>>])
    IN st.sorted_order \o orphans(bones, st.visited)

\* _topological_sort_bones(bones): the bone names in hierarchy order
topological_sort_bones(bones) ==
    LET order == sorted_indices(bones)
    IN [k \in 1..Len(order) |-> bone_names(bones)[order[k] + 1]]

\* a variant whose try block swallows the failure
load_skeleton_raises_never(data) == FALSE

\* _load_skeleton_bone_order() raises: the file cannot be opened or decoded
load_skeleton_raises(data) == "io_error" \in DOMAIN data

\* a variant that keeps the bones in file order
load_skeleton_bone_order_unsorted(data) ==
    IF "bones" \notin DOMAIN data THEN <<>>
    ELSE bone_names(data.bones)

\* _load_skeleton_bone_order(): [] when the structure has no 'bones' key
load_skeleton_bone_order(data) ==
    IF "bones" \notin DOMAIN data THEN <<>>
    ELSE topological_sort_bones(data.bones)

-----------------------------------------------------------------------------
(* converter.py: root correction *)

\* R_X_90 and R_Z_N90 of _apply_root_correction
R_X_90 == << <<1, 0, 0, 0>>, <<0, 0, -1, 0>>, <<0, 1, 0, 0>>, <<0, 0, 0, 1>> >>
R_Z_N90 == << <<0, 1, 0, 0>>, <<-1, 0, 0, 0>>, <<0, 0, 1, 0>>, <<0, 0, 0, 1>> >>

\* a variant that corrects the rotation and leaves the translation raw
apply_root_correction_rotation_only(raw_transform) ==
    Transform(raw_transform.translation,
              quat_multiply(axis_angle_to_quat(Vector3(1, 0, 0), 90),
                            quat_multiply(raw_transform.rotation,
                                          axis_angle_to_quat(Vector3(0, 0, 1), -90))),
              raw_transform.scale)

\* _apply_root_correction(raw_transform)
apply_root_correction(raw_transform) ==
    LET T == raw_transform.translation
        R == raw_transform.rotation
        S == raw_transform.scale
        Q_X_90 == axis_angle_to_quat(Vector3(1, 0, 0), 90)
        Q_Z_N90 == axis_angle_to_quat(Vector3(0, 0, 1), -90)
        Q_temp == quat_multiply(R, Q_Z_N90)
        Q_corr == quat_multiply(Q_X_90, Q_temp)
        M_ssbh == build_matrix4x4(T, R, S)
        M_corr == matmul(matmul(R_X_90, M_ssbh), R_Z_N90)
        T_corr == Vector3(M_corr[1][4], M_corr[2][4], M_corr[3][4])
    IN IF has_nan(R)
       THEN \* every component of both quaternion products has a NaN term, and
            \* M_corr[i, 3] sums the NaN entries of the rotation part times 0
            Transform(Vector3(NaN, NaN, NaN), Vector4(NaN, NaN, NaN, NaN), S)
       ELSE Transform(T_corr, Q_corr, S)

-----------------------------------------------------------------------------
(* converter.py: resampling.  Every key-creation loop is a fold over the   *)
(* track's values; source frame frame_idx is values[frame_idx + 1].        *)

\* Python's int() of the quotient n / d, d > 0: truncation toward zero
int_div(n, d) == IF n >= 0 THEN n \div d ELSE -((-n) \div d)

\* a variant that counts source frames from 1
maya_frame_of_one_based(frame_idx, fps) == int_div((frame_idx + 1) * fps, 100 * SourceFps)

\* maya_frame = int(frame_idx * self.fps_conversion), fps_conversion = maya_fps / 60.0;
\* fps is in hundredths of a frame per second
maya_frame_of(frame_idx, fps) == int_div(frame_idx * fps, 100 * SourceFps)

\* the duplicate check left out
is_duplicate_frame_never(maya_frame, last_maya_frame) == FALSE

\* "Skip duplicate frames": maya_frame == last_maya_frame
is_duplicate_frame(maya_frame, last_maya_frame) == maya_frame = last_maya_frame

\* a variant whose non-root z reads y without the sign flip
translation_value_unsigned(transform, axis, is_root_bone) ==
    CASE axis = "x" -> transform.translation.x
      [] axis = "y" -> IF is_root_bone THEN transform.translation.y ELSE transform.translation.z
      [] OTHER -> IF is_root_bone THEN transform.translation.z ELSE transform.translation.y

\* the translation value of one axis of a transform
translation_value(transform, axis, is_root_bone) ==
    IF is_root_bone
    THEN CASE axis = "x" -> transform.translation.x
           [] axis = "y" -> transform.translation.y
           [] OTHER -> transform.translation.z
    ELSE CASE axis = "x" -> transform.translation.x
           [] axis = "y" -> transform.translation.z
           [] OTHER -> -transform.translation.y

\* the scale value of one axis of a transform
scale_value(transform, axis, is_root_bone) ==
    IF is_root_bone
    THEN CASE axis = "x" -> transform.scale.x
           [] axis = "y" -> transform.scale.y
           [] OTHER -> transform.scale.z
    ELSE CASE axis = "x" -> transform.scale.x
           [] axis = "y" -> transform.scale.z
           [] OTHER -> transform.scale.y

RECURSIVE keys_loop(_, _, _, _, _), keys_loop_last_wins(_, _, _, _, _)
\* the loop with a later source frame overwriting the key of its target frame
keys_loop_last_wins(vals, fps, k, keys, last_maya_frame) ==
    IF k > Len(vals) THEN keys
    ELSE IF is_duplicate_frame(maya_frame_of(k - 1, fps), last_maya_frame)
         THEN keys_loop_last_wins(vals, fps, k + 1,
                  [keys EXCEPT ![Len(keys)] = MayaKeyframe(last_maya_frame, vals[k])],
                  last_maya_frame)
         ELSE keys_loop_last_wins(vals, fps, k + 1,
                  Append(keys, MayaKeyframe(maya_frame_of(k - 1, fps), vals[k])),
                  maya_frame_of(k - 1, fps))

\* the loop of _create_translation_keys and _create_scale_keys: vals[k] is
\* the axis value of source frame k - 1
keys_loop(vals, fps, k, keys, last_maya_frame) ==
    IF k > Len(vals) THEN keys
    ELSE LET maya_frame == maya_frame_of(k - 1, fps)
         IN IF is_duplicate_frame(maya_frame, last_maya_frame)
            THEN keys_loop(vals, fps, k + 1, keys, last_maya_frame)
            ELSE keys_loop(vals, fps, k + 1,
                           Append(keys, MayaKeyframe(maya_frame, vals[k])), maya_frame)

\* _create_translation_keys(track, axis, final_frame, is_root_bone)
create_translation_keys(values, axis, fps, is_root_bone) ==
    keys_loop([k \in 1..Len(values) |-> translation_value(values[k], axis, is_root_bone)],
              fps, 1, <<>>, -1)

\* a variant that keeps a key for every source frame, at the source frame
create_scale_keys_every_frame(values, axis, fps, is_root_bone) ==
    [k \in 1..Len(values) |-> MayaKeyframe(k - 1, scale_value(values[k], axis, is_root_bone))]

\* _create_scale_keys(track, axis, final_frame, is_root_bone)
create_scale_keys(values, axis, fps, is_root_bone) ==
    keys_loop([k \in 1..Len(values) |-> scale_value(values[k], axis, is_root_bone)],
              fps, 1, <<>>, -1)

RECURSIVE wind_down(_, _), wind_up(_, _)
\* while current - previous > 180.0: current -= 360.0
wind_down(current, previous) ==
    IF current - previous > HalfTurn THEN wind_down(current - FullTurn, previous)
    ELSE current
\* while current - previous < -180.0: current += 360.0
wind_up(current, previous) ==
    IF current - previous < -HalfTurn THEN wind_up(current + FullTurn, previous)
    ELSE current

\* the correction left out
correct_rotation_winding_none(current, previous) == current

\* _correct_rotation_winding(current, previous)
correct_rotation_winding(current, previous) ==
    IF current = NaN \/ previous = NaN
    THEN current    \* both loop conditions are False
    ELSE wind_up(wind_down(current, previous), previous)

\* a variant that hands on the raw Euler triple for every bone
mapped_euler_raw(transform, is_root_bone) == quat_to_euler(transform.rotation)

\* the Euler triple of one transform after the bone's axis policy
mapped_euler(transform, is_root_bone) ==
    TheOnly({ IF is_root_bone
              THEN Vector3(raw_euler.x, raw_euler.y, raw_euler.z)
              ELSE Vector3(raw_euler.x, raw_euler.z, negated(raw_euler.y)) :
              raw_euler \in {quat_to_euler(transform.rotation)} })

\* a variant that corrects each axis against the previous value of the next axis
corrected_euler_cross_axis(e, prev, frame_idx) ==
    IF frame_idx > 0
    THEN Vector3(correct_rotation_winding(e.x, prev.y),
                 correct_rotation_winding(e.y, prev.z),
                 correct_rotation_winding(e.z, prev.x))
    ELSE e

\* "if frame_idx > 0": the continuity correction of the triple e against prev
corrected_euler(e, prev, frame_idx) ==
    IF frame_idx > 0
    THEN Vector3(correct_rotation_winding(e.x, prev.x),
                 correct_rotation_winding(e.y, prev.y),
                 correct_rotation_winding(e.z, prev.z))
    ELSE e

\* one kept frame of _create_rotation_keys: the keys appended, the state updated
rotation_keep(st, maya_frame, euler) ==
    [x |-> Append(st.x, MayaKeyframe(maya_frame, euler.x)),
     y |-> Append(st.y, MayaKeyframe(maya_frame, euler.y)),
     z |-> Append(st.z, MayaKeyframe(maya_frame, euler.z)),
     last_maya_frame |-> maya_frame,
     prev |-> euler]

\* the iteration with the correction run before the duplicate check, the
\* previous triple updated on dropped frames too
rotation_step_threaded(st, transform, frame_idx, fps, is_root_bone) ==
    TheOnly({ IF is_duplicate_frame(maya_frame_of(frame_idx, fps), st.last_maya_frame)
              THEN [st EXCEPT !.prev = euler]
              ELSE rotation_keep(st, maya_frame_of(frame_idx, fps), euler) :
              euler \in {corrected_euler(mapped_euler(transform, is_root_bone),
                                         st.prev, frame_idx)} })

\* one iteration of the loop of _create_rotation_keys on source frame
\* frame_idx; st = [x, y, z: the key lists, last_maya_frame, prev: the
\* previous Euler triple]
rotation_step(st, transform, frame_idx, fps, is_root_bone) ==
    IF is_duplicate_frame(maya_frame_of(frame_idx, fps), st.last_maya_frame)
    THEN st
    ELSE TheOnly({ rotation_keep(st, maya_frame_of(frame_idx, fps), euler) :
                   euler \in {corrected_euler(mapped_euler(transform, is_root_bone),
                                              st.prev, frame_idx)} })

\* the loop of _create_rotation_keys, from values[k] on
RECURSIVE rotation_loop(_, _, _, _, _)
rotation_loop(values, fps, is_root_bone, k, st) ==
    IF k > Len(values) THEN st
    ELSE TheOnly({ rotation_loop(values, fps, is_root_bone, k + 1, st1) :
                   st1 \in {rotation_step(st, values[k], k - 1, fps, is_root_bone)} })

\* _create_rotation_keys(track, final_frame, is_root_bone): the key lists by axis
create_rotation_keys(values, fps, is_root_bone) ==
    TheOnly({ [x |-> st.x, y |-> st.y, z |-> st.z] :
              st \in {rotation_loop(values, fps, is_root_bone, 1,
                          [x |-> <<>>, y |-> <<>>, z |-> <<>>,
                           last_maya_frame |-> -1, prev |-> Vector3(0, 0, 0)])} })

-----------------------------------------------------------------------------
(* nuanmb_parser.py.  A decoded JSON object is a record of its keys; a     *)
(* file that cannot be opened or decoded is the record [io_error |-> e].   *)

\* GroupType: the values the enumeration accepts
GroupTypes == {"Transform", "Visibility", "Material"}

\* open() or json.load() raises
io_raises(data) == "io_error" \in DOMAIN data

\* _parse_transform(data)
parse_transform(data) ==
    Transform(Vector3(data.translation.x, data.translation.y, data.translation.z),
              Vector4(data.rotation.x, data.rotation.y, data.rotation.z, data.rotation.w),
              Vector3(data.scale.x, data.scale.y, data.scale.z))

\* a variant that raises for a track whose values hold no "Transform" entry
parse_track_raises_strict(data) ==
    \/ ~({"name", "compensate_scale", "transform_flags", "values"} \subseteq DOMAIN data)
    \/ "Transform" \notin DOMAIN data.values

\* _parse_track(data) raises KeyError: a required key is missing
parse_track_raises(data) ==
    ~({"name", "compensate_scale", "transform_flags", "values"} \subseteq DOMAIN data)

\* _parse_track(data): the values under "Transform", none for another kind
parse_track(data) ==
    Track(data.name,
          IF "Transform" \in DOMAIN data.values
          THEN [i \in 1..Len(data.values.Transform) |->
                   parse_transform(data.values.Transform[i])]
          ELSE <<>>)

\* _parse_node(data) raises
parse_node_raises(data) ==
    IF ~({"name", "tracks"} \subseteq DOMAIN data) THEN TRUE
    ELSE \E t \in 1..Len(data.tracks) : parse_track_raises(data.tracks[t])

\* _parse_node(data)
parse_node(data) ==
    Node(data.name, [t \in 1..Len(data.tracks) |-> parse_track(data.tracks[t])])

\* _parse_group(data) raises: a missing key, or GroupType(...) rejects the kind
parse_group_raises(data) ==
    IF ~({"group_type", "nodes"} \subseteq DOMAIN data) THEN TRUE
    ELSE \/ data.group_type \notin GroupTypes
         \/ \E n \in 1..Len(data.nodes) : parse_node_raises(data.nodes[n])

\* _parse_group(data)
parse_group(data) ==
    Group(data.group_type, [n \in 1..Len(data.nodes) |-> parse_node(data.nodes[n])])

\* parse() raises
parse_raises(data) ==
    IF io_raises(data) THEN TRUE
    ELSE IF ~({"major_version", "minor_version", "final_frame_index", "groups"}
                 \subseteq DOMAIN data) THEN TRUE
    ELSE \E g \in 1..Len(data.groups) : parse_group_raises(data.groups[g])

\* _parse_anim_data(data)
parse_anim_data(data) ==
    [major_version |-> data.major_version, minor_version |-> data.minor_version,
     final_frame_index |-> data.final_frame_index,
     groups |-> [g \in 1..Len(data.groups) |-> parse_group(data.groups[g])]]

-----------------------------------------------------------------------------
(* maya_writer.py: the writer is the record [curves, empty_bones,         *)
(* write_order]; an item of write_order is <<'curve', curve>> or          *)
(* <<'empty', bone_name>>.                                                 *)

\* MayaAnimWriter.__init__
new_writer == [curves |-> <<>>, empty_bones |-> <<>>, write_order |-> <<>>]

\* a variant that queues the curve at the front of write_order
add_curve_at_front(w, curve) ==
    [w EXCEPT !.curves = Append(@, curve),
              !.write_order = <<<<"curve", curve>>>> \o @]

\* add_curve(curve)
add_curve(w, curve) ==
    [w EXCEPT !.curves = Append(@, curve),
              !.write_order = Append(@, <<"curve", curve>>)]

\* a variant that records the bone without queueing an item for it
add_empty_bone_unlisted(w, bone_name) ==
    [w EXCEPT !.empty_bones = Append(@, bone_name)]

\* add_empty_bone(bone_name)
add_empty_bone(w, bone_name) ==
    [w EXCEPT !.empty_bones = Append(@, bone_name),
              !.write_order = Append(@, <<"empty", bone_name>>)]

\* clear_curves(): self.curves is emptied, write_order is left alone
clear_curves(w) == [w EXCEPT !.curves = <<>>]

\* get_curve_count(): len(self.curves)
get_curve_count(w) == Len(w.curves)

RECURSIVE key_total(_)
\* sum(len(curve.keys) for curve in curves)
key_total(curves) ==
    IF curves = <<>> THEN 0 ELSE Len(Head(curves).keys) + key_total(Tail(curves))

\* get_keyframe_count(): the keys of the curves in self.curves
get_keyframe_count(w) == key_total(w.curves)

\* the frames of all keys of the curves in self.curves
all_frames(w) ==
    UNION {{w.curves[c].keys[j].frame : j \in 1..Len(w.curves[c].keys)} : c \in 1..Len(w.curves)}

\* a variant that reads the range off the first curve alone
calculate_time_range_first_curve(w) ==
    IF Len(w.curves) = 0 THEN <<0, 0>>
    ELSE IF Len(w.curves[1].keys) = 0 THEN <<0, 1>>
    ELSE << w.curves[1].keys[1].frame, w.curves[1].keys[Len(w.curves[1].keys)].frame >>

\* _calculate_time_range()
calculate_time_range(w) ==
    IF Len(w.curves) = 0 THEN <<0, 0>>
    ELSE IF all_frames(w) = {} THEN <<0, 1>>
    ELSE << CHOOSE f \in all_frames(w) : \A g \in all_frames(w) : f <= g,
            CHOOSE f \in all_frames(w) : \A g \in all_frames(w) : f >= g >>

\* write(): the header's time range, then one entry per item of write_order
write(w) ==
    [start_time |-> calculate_time_range(w)[1],
     end_time |-> calculate_time_range(w)[2],
     items |-> w.write_order]

-----------------------------------------------------------------------------
(* converter.py: the curve assembler *)

\* the first track named "Transform" that has values, as a sequence of at
\* most one track (transform_track, None when there is none)
find_transform_track(node) ==
    LET F[i \in 0..Len(node.tracks)] ==
            IF i = 0 THEN <<>>
            ELSE IF Len(F[i - 1]) = 0 /\ node.tracks[i].name = "Transform"
                    /\ Len(node.tracks[i].values) > 0
                 THEN <<node.tracks[i]>> ELSE F[i - 1]
    IN F[Len(node.tracks)]

\* a variant that never advances the index
next_curve_index_stuck(curve_index) == curve_index

\* curve_index += 1
next_curve_index(curve_index) == curve_index + 1

\* the nine channels in the order _process_bone walks them, with their keys
channel_keys(values, fps, is_root_bone) ==
    TheOnly({
       << <<"translate.translateX", "translateX", create_translation_keys(values, "x", fps, is_root_bone)>>,
          <<"translate.translateY", "translateY", create_translation_keys(values, "y", fps, is_root_bone)>>,
          <<"translate.translateZ", "translateZ", create_translation_keys(values, "z", fps, is_root_bone)>>,
          <<"rotate.rotateX", "rotateX", euler_keys.x>>,
          <<"rotate.rotateY", "rotateY", euler_keys.y>>,
          <<"rotate.rotateZ", "rotateZ", euler_keys.z>>,
          <<"scale.scaleX", "scaleX", create_scale_keys(values, "x", fps, is_root_bone)>>,
          <<"scale.scaleY", "scaleY", create_scale_keys(values, "y", fps, is_root_bone)>>,
          <<"scale.scaleZ", "scaleZ", create_scale_keys(values, "z", fps, is_root_bone)>> >> :
       euler_keys \in {create_rotation_keys(values, fps, is_root_bone)} })

\* "if keys: add_curve(...); curve_index += 1" over the channels, from
\* channel k on; st = [w: the writer, curve_index]
RECURSIVE emit_channels(_, _, _, _)
emit_channels(channels, bone_name, k, st) ==
    IF k > Len(channels) THEN st
    ELSE LET keys == channels[k][3]
         IN IF Len(keys) > 0
            THEN emit_channels(channels, bone_name, k + 1,
                     [w |-> add_curve(st.w, MayaAnimCurve(channels[k][1], channels[k][2],
                                                          bone_name, st.curve_index, keys)),
                      curve_index |-> next_curve_index(st.curve_index)])
            ELSE emit_channels(channels, bone_name, k + 1, st)

\* a variant that stops at source frame final_frame
frames_converted_up_to_final(values, final_frame) ==
    SubSeq(values, 1, IF final_frame + 1 < Len(values) THEN final_frame + 1 ELSE Len(values))

\* the values a key function walks, "for frame_idx, transform in
\* enumerate(values)": every value of the track; final_frame is a parameter
\* of the three key functions that none of them reads
frames_converted(values, final_frame) == values

\* _process_bone(node, final_frame): the writer after the call
process_bone(w, node, final_frame, fps) ==
    LET bone_name == node.name
        is_root_bone == bone_name = "Trans"
        transform_track == find_transform_track(node)
    IN IF Len(transform_track) = 0
       THEN w
       ELSE LET values == transform_track[1].values
                processed_values ==
                    IF is_root_bone
                    THEN [k \in 1..Len(values) |-> apply_root_correction(values[k])]
                    ELSE values
            IN emit_channels(channel_keys(frames_converted(processed_values, final_frame),
                                          fps, is_root_bone),
                             bone_name, 1, [w |-> w, curve_index |-> 0]).w

\* a variant that stores the root bone's corrected values in the node's
\* own "Transform" tracks
dataset_after_process_bone_in_place(data, node) ==
    [data EXCEPT !.groups = [g \in 1..Len(@) |->
        [@[g] EXCEPT !.nodes = [n \in 1..Len(@) |->
            IF @[n] = node /\ node.name = "Trans"
            THEN [@[n] EXCEPT !.tracks = [t \in 1..Len(@) |->
                     IF @[t].name = "Transform"
                     THEN [@[t] EXCEPT !.values =
                              [k \in 1..Len(@) |-> apply_root_correction(@[k])]]
                     ELSE @[t]]]
            ELSE @[n]]]]]

\* the parsed dataset after _process_bone(node, final_frame): the call
\* assigns to no attribute of the node, its tracks or their Transforms.  The
\* root's corrected values are a new list of new Transforms
\* (converter.py:263-264), the Track handed to the key functions is a new
\* object (267-272), and the Euler triples the winding correction assigns
\* to are new Vector3 (converter.py:484-499)
dataset_after_process_bone(data, node) == data

\* a variant that collects the nodes of every group
transform_nodes_all_groups(data) ==
    Concat([g \in 1..Len(data.groups) |-> data.groups[g].nodes])

\* transform_groups and all_nodes of convert()
transform_nodes(data) ==
    Concat([g \in 1..Len(data.groups) |->
               IF data.groups[g].group_type = "Transform" THEN data.groups[g].nodes ELSE <<>>])

\* node_map = {node.name: node for node in all_nodes}: the last node of a name
node_map(nodes, name) ==
    nodes[CHOOSE i \in 1..Len(nodes) :
              /\ nodes[i].name = name
              /\ \A j \in (i + 1)..Len(nodes) : nodes[j].name # name]

in_node_map(nodes, name) == \E i \in 1..Len(nodes) : nodes[i].name = name

-----------------------------------------------------------------------------
(* The run: NuanmbToMayaConverter(...) then convert(). *)

\* main() up to the constructor: a missing input or skeleton file makes main
\* return 1; __init__ sets self.time_unit and self.bone_order, and a skeleton
\* that cannot be loaded raises, which main answers with 1; the writer is new
Construct ==
    /\ pc = "new"
    /\ IF \/ io_raises(input_data) /\ input_data.io_error = "FileNotFoundError"
          \/ io_raises(skeleton_data) /\ skeleton_data.io_error = "FileNotFoundError"
       THEN /\ pc' = "failed"
            /\ exit_code' = 1
            /\ UNCHANGED <<time_unit, bone_order, writer>>
       ELSE IF load_skeleton_raises(skeleton_data)
       THEN /\ pc' = "failed"
            /\ exit_code' = 1
            /\ time_unit' = determine_time_unit(maya_fps)
            /\ UNCHANGED <<bone_order, writer>>
       ELSE /\ time_unit' = determine_time_unit(maya_fps)
            /\ bone_order' = load_skeleton_bone_order(skeleton_data)
            /\ writer' = new_writer
            /\ pc' = "constructed"
            /\ exit_code' = exit_code
    /\ UNCHANGED <<transform_in, mat, decomposed, input_data, maya_fps, skeleton_data, anim_data, all_nodes, bone_idx, node_idx,
                   processed, output>>

\* convert(), steps 1-4: the dataset is parsed and the nodes of its Transform
\* groups are collected; a parse that raises ends convert(), and main returns 1
ConvertBegin ==
    /\ pc = "constructed"
    /\ IF parse_raises(input_data)
       THEN /\ pc' = "failed"
            /\ exit_code' = 1
            /\ UNCHANGED <<anim_data, all_nodes>>
       ELSE /\ anim_data' = parse_anim_data(input_data)
            /\ all_nodes' = transform_nodes(parse_anim_data(input_data))
            /\ pc' = "converting"
            /\ exit_code' = exit_code
    /\ bone_idx' = 1
    /\ node_idx' = 1
    /\ UNCHANGED <<transform_in, mat, decomposed, input_data, maya_fps, time_unit, skeleton_data, bone_order, processed, writer,
                   output>>

\* convert(), step 5: one iteration of "for bone_name in self.bone_order"
ConvertSkeletonBone ==
    /\ pc = "converting"
    /\ bone_idx <= Len(bone_order)
    /\ LET bone_name == bone_order[bone_idx]
       IN IF in_node_map(all_nodes, bone_name)
          THEN /\ writer' = process_bone(writer, node_map(all_nodes, bone_name),
                                            anim_data.final_frame_index, maya_fps)
               /\ anim_data' = dataset_after_process_bone(anim_data,
                                                          node_map(all_nodes, bone_name))
               /\ processed' = Append(processed, bone_name)
          ELSE /\ writer' = add_empty_bone(writer, bone_name)
               /\ anim_data' = anim_data
               /\ processed' = processed
    /\ bone_idx' = bone_idx + 1
    /\ UNCHANGED <<transform_in, mat, decomposed, exit_code, input_data, pc, maya_fps, time_unit, skeleton_data, bone_order, all_nodes, node_idx, output>>

\* convert(): one iteration of "for node in all_nodes" (bones of the
\* animation that the skeleton does not know)
ConvertExtraNode ==
    /\ pc = "converting"
    /\ bone_idx > Len(bone_order)
    /\ node_idx <= Len(all_nodes)
    /\ LET node == all_nodes[node_idx]
       IN IF node.name \notin Range(bone_order)
          THEN /\ writer' = process_bone(writer, node, anim_data.final_frame_index, maya_fps)
               /\ anim_data' = dataset_after_process_bone(anim_data, node)
               /\ processed' = Append(processed, node.name)
          ELSE /\ writer' = writer
               /\ anim_data' = anim_data
               /\ processed' = processed
    /\ node_idx' = node_idx + 1
    /\ UNCHANGED <<transform_in, mat, decomposed, exit_code, input_data, pc, maya_fps, time_unit, skeleton_data, bone_order, all_nodes, bone_idx, output>>

\* convert(), step 6: self.writer.write(); main returns 0
Write ==
    /\ pc = "converting"
    /\ bone_idx > Len(bone_order)
    /\ node_idx > Len(all_nodes)
    /\ output' = write(writer)
    /\ pc' = "written"
    /\ exit_code' = 0
    /\ UNCHANGED <<transform_in, mat, decomposed, input_data, maya_fps, time_unit, skeleton_data, bone_order, anim_data, all_nodes, bone_idx,
                   node_idx, processed, writer>>

Next == Construct \/ ConvertBegin \/ ConvertSkeletonBone \/ ConvertExtraNode \/ Write

-----------------------------------------------------------------------------
(* The inputs enumerated. *)

\* the name of the bone at list index i (0-based) in the resolver's runs
BoneNames == <<"Trans", "Root", "ArmL", "ArmR", "Hip", "Head">>

\* the transforms a track's values are drawn from
SampleTransforms ==
    { Transform(Vector3(0, 0, 0), Vector4(0, 0, 0, 1), Vector3(1, 1, 1)),
      Transform(Vector3(1, 0, 0), Vector4(1, 0, 0, 0), Vector3(1, 1, 1)),
      Transform(Vector3(0, 10, 0), Vector4(-1, 0, 0, 1), Vector3(2, 3, 4)),
      Transform(Vector3(1, 2, 3), Vector4(0, 0, 1, 1), Vector3(1, 1, 1)),
      Transform(Vector3(4, 5, 6), Vector4(0, 1, 0, 1), Vector3(1, 2, 1)),
      Transform(Vector3(0, 10, 0), Vector4(0, 0, 0, 1), Vector3(1, 1, 1)) }

\* the target frame rates, in hundredths: 24, 29.97, 30, 60 and 120 fps
FpsSet == {2400, 2997, 3000, 6000, 12000}

\* the state before main() runs, for a decoded skeleton and a decoded dataset
StartRaw(fps, skel, data) ==
    /\ pc = "new"
    /\ maya_fps = fps
    /\ time_unit = "unset"
    /\ skeleton_data = skel
    /\ input_data = data
    /\ anim_data = [major_version |-> 0, minor_version |-> 0, final_frame_index |-> 0,
                    groups |-> <<>>]
    /\ exit_code = -1
    /\ transform_in = Transform(Vector3(0, 0, 0), Vector4(0, 0, 0, 1), Vector3(1, 1, 1))
    /\ mat = <<>>
    /\ decomposed = <<>>
    /\ bone_order = <<>>
    /\ all_nodes = <<>>
    /\ bone_idx = 1
    /\ node_idx = 1
    /\ processed = <<>>
    /\ writer = new_writer
    /\ output = <<>>

AnimData(groups) == [major_version |-> 2, minor_version |-> 0,
                     final_frame_index |-> 0, groups |-> groups]

\* the JSON of a track, its values under the key "Transform"
JsonTrack(track) ==
    [name |-> track.name, compensate_scale |-> FALSE,
     transform_flags |-> [override_translation |-> FALSE, override_rotation |-> FALSE,
                          override_scale |-> FALSE, override_compensate_scale |-> FALSE],
     values |-> [Transform |-> track.values]]

\* the JSON ssbh_data exports for an animation
JsonAnim(data) ==
    [major_version |-> data.major_version, minor_version |-> data.minor_version,
     final_frame_index |-> data.final_frame_index,
     groups |-> [g \in 1..Len(data.groups) |->
        [group_type |-> data.groups[g].group_type,
         nodes |-> [n \in 1..Len(data.groups[g].nodes) |->
            [name |-> data.groups[g].nodes[n].name,
             tracks |-> [t \in 1..Len(data.groups[g].nodes[n].tracks) |->
                JsonTrack(data.groups[g].nodes[n].tracks[t])]]]]]]

\* the state before main() runs, for a decoded skeleton and the animation
\* the input file holds
Start(fps, skel, data) == StartRaw(fps, skel, JsonAnim(data))

\* a bone of the skeleton; parent = <<FALSE, 0>> stands for no parent_index,
\* <<TRUE, p>> for parent_index p
Bone(name, parent) ==
    IF parent[1] THEN [name |-> name, parent_index |-> parent[2]]
    ELSE [name |-> name]

NoParent == <<FALSE, 0>>
ParentIs(p) == <<TRUE, p>>

\* every bone list of at most MaxBones bones, each bone with no parent_index
\* or with any index 0..MaxBones (own index, later, cyclic and out-of-range
\* parents included)
AllBoneLists ==
    UNION {{[i \in 1..n |-> Bone(BoneNames[i], ps[i])] :
               ps \in [1..n -> {NoParent} \cup {ParentIs(p) : p \in 0..MaxBones}]} :
           n \in 0..MaxBones}

\* resolver runs: every bone list, a dataset with one animated bone
InitSort ==
    \E bones \in AllBoneLists :
        Start(100 * SourceFps, [bones |-> bones],
              AnimData(<<Group("Transform",
                  <<Node("Root", <<Track("Transform",
                      <<Transform(Vector3(0, 0, 0), Vector4(0, 0, 0, 1), Vector3(1, 1, 1))>>)>>)>>)>>))

SpecSort == InitSort /\ [][Next]_vars

\* resampling runs: one bone, root or not, with every value sequence of at
\* most MaxFrames sample transforms, at every frame rate
InitKeys ==
    \E name \in {"Trans", "ArmL"}, fps \in FpsSet,
       values \in SeqsOf(SampleTransforms, 1, MaxFrames), known \in BOOLEAN :
        Start(fps, [bones |-> IF known THEN <<Bone(name, NoParent)>> ELSE <<Bone("Root", NoParent)>>],
              AnimData(<<Group("Transform", <<Node(name, <<Track("Transform", values)>>)>>)>>))

SpecKeys == InitKeys /\ [][Next]_vars

\* the transforms of a malformed dataset: the identity, a quarter turn about
\* Z, a zero quaternion, a quaternion with a NaN component
MalformedSamples ==
    { Transform(Vector3(0, 0, 0), Vector4(0, 0, 0, 1), Vector3(1, 1, 1)),
      Transform(Vector3(0, 0, 0), Vector4(0, 0, 1, 1), Vector3(1, 1, 1)),
      Transform(Vector3(1, 2, 3), Vector4(0, 0, 0, 0), Vector3(1, 1, 1)),
      Transform(Vector3(1, 2, 3), Vector4(NaN, 0, 0, 1), Vector3(1, 1, 1)) }

\* malformed-rotation runs: one bone, root or not, with every value sequence
\* of at most MaxFrames of those transforms, at 30 and 60 fps
InitMalformed ==
    \E name \in {"Trans", "ArmL"}, fps \in {3000, 6000},
       values \in SeqsOf(MalformedSamples, 1, MaxFrames) :
        Start(fps, [bones |-> <<Bone(name, NoParent)>>],
              AnimData(<<Group("Transform", <<Node(name, <<Track("Transform", values)>>)>>)>>))

SpecMalformed == InitMalformed /\ [][Next]_vars

\* rotations about Z: none, a half turn, a quarter turn backwards
TurnSamples ==
    { Transform(Vector3(0, 0, 0), Vector4(0, 0, 0, 1), Vector3(1, 1, 1)),
      Transform(Vector3(0, 0, 0), Vector4(0, 0, 1, 0), Vector3(1, 1, 1)),
      Transform(Vector3(0, 0, 0), Vector4(0, 0, -1, 1), Vector3(1, 1, 1)) }

\* two-bone runs: the bones ArmL and ArmR, in either skeleton order, each
\* with every sequence of at most MaxTurns of those rotations, at 30 and 60
\* fps
InitBones ==
    \E first \in {"ArmL", "ArmR"}, fps \in {3000, 6000},
       va \in SeqsOf(TurnSamples, 1, MaxTurns), vb \in SeqsOf(TurnSamples, 1, MaxTurns) :
        Start(fps,
              [bones |-> <<Bone(first, NoParent),
                           Bone(IF first = "ArmL" THEN "ArmR" ELSE "ArmL", NoParent)>>],
              AnimData(<<Group("Transform",
                  <<Node("ArmL", <<Track("Transform", va)>>),
                    Node("ArmR", <<Track("Transform", vb)>>)>>)>>))

SpecBones == InitBones /\ [][Next]_vars

\* the values of final_frame_index: below, at and above the last source
\* frame of the tracks
FinalFrames == {0, 1, 2, 7}

\* final-frame runs: one bone, root or not, with every value sequence of at
\* most MaxFrames sample transforms, under every final_frame_index
InitFinal ==
    \E name \in {"Trans", "ArmL"}, fps \in {3000, 6000}, final \in FinalFrames,
       values \in SeqsOf(SampleTransforms, 1, MaxFrames) :
        Start(fps, [bones |-> <<Bone(name, NoParent)>>],
              [AnimData(<<Group("Transform", <<Node(name, <<Track("Transform", values)>>)>>)>>)
                  EXCEPT !.final_frame_index = final])

SpecFinal == InitFinal /\ [][Next]_vars

\* the names of the dataset's nodes
DatasetNames == {"Trans", "Root", "ArmL"}

\* the track lists of a node: no track, an empty "Transform" track, a
\* "Transform" track with two values, a track of another name with a value
TrackSamples ==
    { <<>>,
      <<Track("Transform", <<>>)>>,
      <<Track("Transform",
          << Transform(Vector3(0, 0, 0), Vector4(0, 0, 0, 1), Vector3(1, 1, 1)),
             Transform(Vector3(1, 2, 3), Vector4(0, 0, 1, 1), Vector3(1, 1, 1)) >>)>>,
      <<Track("Visibility",
          << Transform(Vector3(0, 0, 0), Vector4(0, 0, 0, 1), Vector3(1, 1, 1)) >>)>> }

\* every list of at most MaxNodes nodes with distinct names
NodeLists ==
    {ns \in SeqsOf({Node(n, t) : n \in DatasetNames, t \in TrackSamples}, 0, MaxNodes) :
        \A i, j \in 1..Len(ns) : i # j => ns[i].name # ns[j].name}

\* the ways a node list is laid out in groups: one Transform group, or the
\* first node in a group of its own, of kind Transform, Visibility or Material
GroupLayouts(ns) ==
    { <<Group("Transform", ns)>> } \cup
    { << Group(gt, SubSeq(ns, 1, 1)), Group("Transform", SubSeq(ns, 2, Len(ns))) >> :
        gt \in IF Len(ns) = 0 THEN {} ELSE {"Transform", "Visibility", "Material"} }

\* the skeletons of the structural runs: no 'bones' key, no bone, a chain,
\* a child listed before its parent, a root with two levels, a two-bone cycle
SkeletonSamples ==
    { [major_version |-> 1],
      [bones |-> <<>>],
      [bones |-> <<Bone("Root", NoParent)>>],
      [bones |-> <<Bone("Root", NoParent), Bone("ArmL", ParentIs(0))>>],
      [bones |-> <<Bone("ArmL", ParentIs(1)), Bone("Root", NoParent)>>],
      [bones |-> <<Bone("Trans", NoParent), Bone("Root", ParentIs(0)), Bone("ArmL", ParentIs(1))>>],
      [bones |-> <<Bone("Root", ParentIs(1)), Bone("ArmL", ParentIs(0))>>] }

\* structural runs: every sample skeleton with every dataset layout
Init ==
    \E skel \in SkeletonSamples, ns \in NodeLists, fps \in {3000, 6000} :
        \E groups \in GroupLayouts(ns) :
            Start(fps, skel, AnimData(groups))

Spec == Init /\ [][Next]_vars

-----------------------------------------------------------------------------
(* The writer driven directly through its public methods, as a caller     *)
(* other than convert() may drive it.                                      *)

\* the key lists of the curves handed to add_curve: no key, and the frames
\* [0,59], [3,47], [3], [47,59]
KeySamples ==
    { <<>>,
      <<MayaKeyframe(0, 0), MayaKeyframe(59, 0)>>,
      <<MayaKeyframe(3, 0), MayaKeyframe(47, 0)>>,
      <<MayaKeyframe(3, 0)>>,
      <<MayaKeyframe(47, 0), MayaKeyframe(59, 0)>> }

\* MayaAnimWriter(...): a new writer, nothing added
InitWriter ==
    /\ pc = "writer"
    /\ maya_fps = 6000
    /\ time_unit = "ntscf"
    /\ skeleton_data = [bones |-> <<>>]
    /\ input_data = JsonAnim(AnimData(<<>>))
    /\ anim_data = AnimData(<<>>)
    /\ exit_code = -1
    /\ transform_in = Transform(Vector3(0, 0, 0), Vector4(0, 0, 0, 1), Vector3(1, 1, 1))
    /\ mat = <<>>
    /\ decomposed = <<>>
    /\ bone_order = <<>>
    /\ all_nodes = <<>>
    /\ bone_idx = 1
    /\ node_idx = 1
    /\ processed = <<>>
    /\ writer = new_writer
    /\ output = <<>>

\* writer.add_curve(curve)
WriterAddCurve ==
    /\ pc = "writer"
    /\ Len(writer.write_order) < MaxItems
    /\ \E ks \in KeySamples :
          writer' = add_curve(writer,
                        MayaAnimCurve("translate.translateX", "translateX", "Root",
                                      Len(writer.curves), ks))
    /\ UNCHANGED <<transform_in, mat, decomposed, exit_code, input_data, pc, maya_fps, time_unit, skeleton_data, bone_order, anim_data, all_nodes, bone_idx,
                   node_idx, processed, output>>

\* writer.add_empty_bone(bone_name)
WriterAddEmptyBone ==
    /\ pc = "writer"
    /\ Len(writer.write_order) < MaxItems
    /\ \E bone_name \in {"ArmL"} : writer' = add_empty_bone(writer, bone_name)
    /\ UNCHANGED <<transform_in, mat, decomposed, exit_code, input_data, pc, maya_fps, time_unit, skeleton_data, bone_order, anim_data, all_nodes, bone_idx,
                   node_idx, processed, output>>

\* writer.clear_curves()
WriterClearCurves ==
    /\ pc = "writer"
    /\ writer' = clear_curves(writer)
    /\ UNCHANGED <<transform_in, mat, decomposed, exit_code, input_data, pc, maya_fps, time_unit, skeleton_data, bone_order, anim_data, all_nodes, bone_idx,
                   node_idx, processed, output>>

\* writer.write()
WriterWrite ==
    /\ pc = "writer"
    /\ output' = write(writer)
    /\ pc' = "emitted"
    /\ UNCHANGED <<transform_in, mat, decomposed, exit_code, input_data, maya_fps, time_unit, skeleton_data, bone_order, anim_data, all_nodes, bone_idx,
                   node_idx, processed, writer>>

NextWriter == WriterAddCurve \/ WriterAddEmptyBone \/ WriterClearCurves \/ WriterWrite

SpecWriter == InitWriter /\ [][NextWriter]_vars

\* time-unit runs: every rate from 0 to MaxUnitFps in steps of a hundredth,
\* with a one-bone skeleton and a dataset whose only node the skeleton does
\* not know
InitUnit ==
    \E fps \in 0..(100 * MaxUnitFps) :
        Start(fps, [bones |-> <<Bone("Root", NoParent)>>],
              AnimData(<<Group("Transform", <<Node("ArmL", <<>>)>>)>>))

SpecUnit == InitUnit /\ [][Next]_vars

\* the skeleton files of the failure runs: missing, not JSON, no 'bones'
\* key, one bone, a root with a child
LoadSkeletons ==
    { [io_error |-> "FileNotFoundError"],
      [io_error |-> "JSONDecodeError"],
      [major_version |-> 1],
      [bones |-> <<Bone("Root", NoParent)>>],
      [bones |-> <<Bone("Root", NoParent), Bone("ArmL", ParentIs(0))>>] }

\* a JSON track whose values are of the kind given, with the flags ssbh_data
\* writes
JsonTrackOfKind(name, kind, vals) ==
    [name |-> name, compensate_scale |-> FALSE,
     transform_flags |-> [override_translation |-> FALSE, override_rotation |-> FALSE,
                          override_scale |-> FALSE, override_compensate_scale |-> FALSE],
     values |-> IF kind = "Transform" THEN [Transform |-> vals]
                ELSE IF kind = "Boolean" THEN [Boolean |-> vals]
                ELSE IF kind = "Float" THEN [Float |-> vals]
                ELSE [UvTransform |-> vals]]

\* the JSON tracks of the failure runs: a "Transform" track with two values,
\* a track named "Transform" holding floats, a "Visibility" track of
\* booleans, a track of a kind the parser does not know, a track that lacks
\* compensate_scale and transform_flags
LoadTracks ==
    { JsonTrackOfKind("Transform", "Transform",
          << Transform(Vector3(0, 0, 0), Vector4(0, 0, 0, 1), Vector3(1, 1, 1)),
             Transform(Vector3(1, 2, 3), Vector4(0, 0, 1, 1), Vector3(1, 1, 1)) >>),
      JsonTrackOfKind("Transform", "Float", <<1, 2>>),
      JsonTrackOfKind("Visibility", "Boolean", <<TRUE>>),
      JsonTrackOfKind("CustomVector0", "UvTransform", <<>>),
      [name |-> "Transform", values |-> [Transform |-> <<>>]] }

\* the input files of the failure runs: missing, not JSON, no 'groups' key,
\* a group of a kind GroupType does not know, and the datasets of one
\* Transform group whose nodes Root and ArmL carry one sample track each
LoadInputs ==
    { [io_error |-> "FileNotFoundError"],
      [io_error |-> "JSONDecodeError"],
      [major_version |-> 2, minor_version |-> 0, final_frame_index |-> 0],
      [major_version |-> 2, minor_version |-> 0, final_frame_index |-> 0,
       groups |-> << [group_type |-> "Camera", nodes |-> <<>>] >>] } \cup
    { [major_version |-> 2, minor_version |-> 0, final_frame_index |-> 0,
       groups |-> << [group_type |-> "Transform",
                      nodes |-> << [name |-> "Root", tracks |-> <<t1>>],
                                   [name |-> "ArmL", tracks |-> <<t2>>] >>] >>] :
        t1 \in LoadTracks, t2 \in LoadTracks }

\* failure runs: every skeleton file with every input file
InitLoad ==
    \E skel \in LoadSkeletons, data \in LoadInputs :
        StartRaw(3000, skel, data)

SpecLoad == InitLoad /\ [][Next]_vars

-----------------------------------------------------------------------------
(* The matrix helpers driven directly: build_matrix4x4, then               *)
(* matrix_to_trans_quat_scale on the matrix built.                         *)

\* the quaternions whose rotation matrix is a signed permutation matrix,
\* each by its shortest whole-number multiple and that one's negative: the
\* identity and the half turns about the axes (norm 1), the quarter turns
\* about the axes and the half turns about the face diagonals (norm sqrt 2),
\* the third turns about the body diagonals (norm 2)
RotationSamples ==
    { q \in [x : -1..1, y : -1..1, z : -1..1, w : -1..1] : norm2(q) \in {1, 2, 4} }

\* the translations handed to build_matrix4x4
TranslationSamples == { Vector3(0, 0, 0), Vector3(1, 2, 3), Vector3(0, 10, 0) }

\* the positive scales: every component from 1 to MaxScale
ScaleSamples == [x : 1..MaxScale, y : 1..MaxScale, z : 1..MaxScale]

\* before build_matrix4x4(t, r, s) is called
InitMath ==
    /\ pc = "math"
    /\ \E t \in TranslationSamples, r \in RotationSamples, s \in ScaleSamples :
          transform_in = Transform(t, r, s)
    /\ mat = <<>>
    /\ decomposed = <<>>
    /\ maya_fps = 6000
    /\ time_unit = "ntscf"
    /\ skeleton_data = [bones |-> <<>>]
    /\ input_data = JsonAnim(AnimData(<<>>))
    /\ anim_data = AnimData(<<>>)
    /\ exit_code = -1
    /\ bone_order = <<>>
    /\ all_nodes = <<>>
    /\ bone_idx = 1
    /\ node_idx = 1
    /\ processed = <<>>
    /\ writer = new_writer
    /\ output = <<>>

\* mat = build_matrix4x4(t, r, s)
BuildMatrix ==
    /\ pc = "math"
    /\ mat' = build_matrix4x4(transform_in.translation, transform_in.rotation,
                                 transform_in.scale)
    /\ pc' = "built"
    /\ UNCHANGED <<transform_in, decomposed, exit_code, input_data, maya_fps, time_unit,
                   skeleton_data, bone_order, anim_data, all_nodes, bone_idx, node_idx,
                   processed, writer, output>>

\* matrix_to_trans_quat_scale(mat)
Decompose ==
    /\ pc = "built"
    /\ decomposed' = matrix_to_trans_quat_scale(mat)
    /\ pc' = "decomposed"
    /\ UNCHANGED <<transform_in, mat, exit_code, input_data, maya_fps, time_unit,
                   skeleton_data, bone_order, anim_data, all_nodes, bone_idx, node_idx,
                   processed, writer, output>>

NextMath == BuildMatrix \/ Decompose

SpecMath == InitMath /\ [][NextMath]_vars

-----------------------------------------------------------------------------
(* Properties of the hierarchy resolver (checked under SpecSort, where the *)
(* bone names are distinct).                                               *)

\* the bones handed to the resolver
Bones == skeleton_data.bones

\* the position in seq of its element e
PosOf(seq, e) == CHOOSE k \in 1..Len(seq) : seq[k] = e

\* index_of: the position in bone_order of the bone at list index i (0-based)
IndexOf(i) == PosOf(bone_order, Bones[i + 1].name)

\* whether list index p names a bone
InRange(p) == p \in 0..(Len(Bones) - 1)

\* whether following parent_index from bone i reaches, in at most `fuel`
\* steps and through bones of the list only, a bone without parent_index
RECURSIVE Rooted(_, _)
Rooted(i, fuel) ==
    IF ~has_parent(Bones[i + 1]) THEN TRUE
    ELSE IF fuel = 0 \/ ~InRange(Bones[i + 1].parent_index) THEN FALSE
    ELSE Rooted(Bones[i + 1].parent_index, fuel - 1)

\* a skeleton in which some bone's parent chain reaches no root: a parent
\* that is the bone itself, a cycle, an index outside the list
Malformed == \E i \in 0..(Len(Bones) - 1) : ~Rooted(i, Len(Bones))

\* C1 as stated: in the resolver's output every bone that declares a
\* parent_index p comes strictly after the bone at index p, for every bone
\* list, well-formed or not.
C1_ParentFirstAnySkeleton ==
    pc # "new" =>
        \A b \in 0..(Len(Bones) - 1) :
            (has_parent(Bones[b + 1]) /\ InRange(Bones[b + 1].parent_index))
                => IndexOf(Bones[b + 1].parent_index) < IndexOf(b)

\* C1 as amended: every bone whose parent chain reaches a root (every bone of
\* a well-formed skeleton) comes strictly after the bone at its parent_index.
C1_ParentFirstRooted ==
    pc # "new" =>
        \A b \in 0..(Len(Bones) - 1) :
            (has_parent(Bones[b + 1]) /\ Rooted(b, Len(Bones)))
                => IndexOf(Bones[b + 1].parent_index) < IndexOf(b)

\* a bone list that names a child before its parent, and a grandchild, resolved
C1_Witness ==
    /\ pc = "constructed"
    /\ Len(Bones) = 3
    /\ ~Malformed
    /\ has_parent(Bones[1]) /\ Bones[1].parent_index = 1
    /\ has_parent(Bones[2]) /\ Bones[2].parent_index = 2
    /\ bone_order = <<Bones[3].name, Bones[2].name, Bones[1].name>>

\* C2: on a skeleton with a self-parent, a parent cycle or a parent never
\* reached from a root, the resolver terminates (the constructor's step can
\* be taken) and its output holds every input bone exactly once.
C2_OrphanSafety ==
    Malformed =>
        /\ pc = "new" => ENABLED Construct
        /\ pc # "new" =>
              /\ Len(bone_order) = Len(Bones)
              /\ \A i \in 1..Len(Bones) :
                    Cardinality({k \in 1..Len(bone_order) : bone_order[k] = Bones[i].name}) = 1

\* a self-parent and a two-bone cycle in one list, resolved
C2_Witness ==
    /\ pc = "constructed"
    /\ Len(Bones) = 3
    /\ has_parent(Bones[1]) /\ Bones[1].parent_index = 0
    /\ has_parent(Bones[2]) /\ Bones[2].parent_index = 2
    /\ has_parent(Bones[3]) /\ Bones[3].parent_index = 1
    /\ Len(bone_order) = 3

-----------------------------------------------------------------------------
(* Properties of resampling and continuity (checked under SpecKeys: one    *)
(* bone with one "Transform" track).                                       *)

\* the bone of the run, its raw value sequence, and the values after the
\* bone's correction policy
KeyNode == anim_data.groups[1].nodes[1]
KeyIsRoot == KeyNode.name = "Trans"
SourceValues == KeyNode.tracks[1].values
EffectiveValues ==
    IF KeyIsRoot
    THEN [k \in 1..Len(SourceValues) |-> apply_root_correction(SourceValues[k])]
    ELSE SourceValues

Abs(v) == IF v < 0 THEN -v ELSE v

RotateAttrs == {"rotateX", "rotateY", "rotateZ"}
LinearAttrs == {"translateX", "translateY", "translateZ", "scaleX", "scaleY", "scaleZ"}

\* floor(i * target_fps / 60)
TargetFrame(i) == (i * maya_fps) \div (100 * SourceFps)

\* the smallest source frame index that maps to target frame f
FirstSource(f) ==
    CHOOSE i \in 0..(Len(SourceValues) - 1) :
        /\ TargetFrame(i) = f
        /\ \A h \in 0..(i - 1) : TargetFrame(h) # f

\* the value a channel reads from a transform
ChannelValue(attr, tr) ==
    CASE attr = "translateX" -> translation_value(tr, "x", KeyIsRoot)
      [] attr = "translateY" -> translation_value(tr, "y", KeyIsRoot)
      [] attr = "translateZ" -> translation_value(tr, "z", KeyIsRoot)
      [] attr = "scaleX" -> scale_value(tr, "x", KeyIsRoot)
      [] attr = "scaleY" -> scale_value(tr, "y", KeyIsRoot)
      [] attr = "scaleZ" -> scale_value(tr, "z", KeyIsRoot)
      [] attr = "rotateX" -> mapped_euler(tr, KeyIsRoot).x
      [] attr = "rotateY" -> mapped_euler(tr, KeyIsRoot).y
      [] attr = "rotateZ" -> mapped_euler(tr, KeyIsRoot).z

\* C3: in every rotation curve, consecutive keys differ by at most 180.
C3_ContinuityBound ==
    \A c \in 1..Len(writer.curves) :
        writer.curves[c].attribute_name \in RotateAttrs =>
            \A j \in 1..(Len(writer.curves[c].keys) - 1) :
                Abs(writer.curves[c].keys[j + 1].value - writer.curves[c].keys[j].value) <= HalfTurn

\* a rotation key that the correction moved out of the raw range (-180, 180]
C3_Witness ==
    \E c \in 1..Len(writer.curves) :
        /\ writer.curves[c].attribute_name \in RotateAttrs
        /\ \E j \in 2..Len(writer.curves[c].keys) :
              Abs(writer.curves[c].keys[j].value) > HalfTurn

\* C4: in every curve, no two consecutive keys have the same frame.
C4_NoDuplicateFrames ==
    \A c \in 1..Len(writer.curves) :
        \A j \in 1..(Len(writer.curves[c].keys) - 1) :
            writer.curves[c].keys[j].frame # writer.curves[c].keys[j + 1].frame

\* three source frames at 30 fps: frames 0 and 1 collapse, two keys remain
C4_Witness ==
    /\ pc = "written"
    /\ maya_fps = 3000
    /\ Len(SourceValues) = 3
    /\ Len(writer.curves) = 9
    /\ \A c \in 1..Len(writer.curves) : Len(writer.curves[c].keys) = 2

\* C5: each key (f, v) of a translation or scale curve has
\* f = floor(i * fps / 60) for the smallest source frame i that maps to f and
\* v the channel's value at source frame i; every target frame has exactly
\* one key; at 60 fps source frame i gives the key at frame i, and the track
\* (0,0,0),(1,0,0) of a non-root bone gives translateX [(0,0),(1,1)].
C5_FirstSampleWins ==
    \A c \in 1..Len(writer.curves) :
        writer.curves[c].attribute_name \in LinearAttrs =>
            LET keys == writer.curves[c].keys
                attr == writer.curves[c].attribute_name
                frames == {TargetFrame(i) : i \in 0..(Len(SourceValues) - 1)}
            IN /\ {keys[j].frame : j \in 1..Len(keys)} = frames
               /\ Len(keys) = Cardinality(frames)
               /\ \A j \in 1..Len(keys) :
                     keys[j].value =
                         ChannelValue(attr, EffectiveValues[FirstSource(keys[j].frame) + 1])
               /\ maya_fps = 100 * SourceFps =>
                     /\ Len(keys) = Len(SourceValues)
                     /\ \A j \in 1..Len(keys) : keys[j].frame = j - 1
               /\ ( /\ maya_fps = 100 * SourceFps
                    /\ ~KeyIsRoot
                    /\ attr = "translateX"
                    /\ Len(SourceValues) = 2
                    /\ SourceValues[1].translation = Vector3(0, 0, 0)
                    /\ SourceValues[2].translation = Vector3(1, 0, 0) )
                  => keys = <<MayaKeyframe(0, 0), MayaKeyframe(1, 1)>>

\* at 30 fps source frames 0 and 1 map to target frame 0 with different
\* translations: the key at frame 0 carries frame 0's value
C5_Witness ==
    /\ pc = "written"
    /\ maya_fps = 3000
    /\ ~KeyIsRoot
    /\ Len(SourceValues) = 3
    /\ SourceValues[1].translation = Vector3(0, 0, 0)
    /\ SourceValues[2].translation = Vector3(1, 0, 0)
    /\ \E c \in 1..Len(writer.curves) :
          /\ writer.curves[c].attribute_name = "translateX"
          /\ Len(writer.curves[c].keys) = 2
          /\ writer.curves[c].keys[1] = MayaKeyframe(0, 0)

\* the continuity correction threaded through every source frame from frame
\* 0: the corrected value of channel attr at source frame i
ThreadedAll(attr, i) ==
    LET T[h \in 0..i] ==
            IF h = 0 THEN ChannelValue(attr, EffectiveValues[1])
            ELSE correct_rotation_winding(ChannelValue(attr, EffectiveValues[h + 1]), T[h - 1])
    IN T[i]

\* C6 as stated: the value of a kept frame's rotation key is the result of
\* threading the correction through all source frames, dropped ones included.
C6_ThreadedThroughDropped ==
    \A c \in 1..Len(writer.curves) :
        writer.curves[c].attribute_name \in RotateAttrs =>
            \A j \in 1..Len(writer.curves[c].keys) :
                writer.curves[c].keys[j].value =
                    ThreadedAll(writer.curves[c].attribute_name,
                                FirstSource(writer.curves[c].keys[j].frame))

\* C6 as amended: the correction runs on the kept source frames with index
\* > 0 only; the first key carries frame 0's value unmodified and every
\* later key is its kept frame's value corrected against the previous
\* emitted key's value.
C6_ThreadedThroughKept ==
    \A c \in 1..Len(writer.curves) :
        writer.curves[c].attribute_name \in RotateAttrs =>
            LET keys == writer.curves[c].keys
                attr == writer.curves[c].attribute_name
            IN \A j \in 1..Len(keys) :
                  keys[j].value =
                      IF j = 1
                      THEN ChannelValue(attr, EffectiveValues[1])
                      ELSE correct_rotation_winding(
                               ChannelValue(attr, EffectiveValues[FirstSource(keys[j].frame) + 1]),
                               keys[j - 1].value)

\* a kept frame after a dropped one, where threading through the dropped
\* frame would give another value than the key carries
C6_Witness ==
    /\ pc = "written"
    /\ \E c \in 1..Len(writer.curves) :
          /\ writer.curves[c].attribute_name \in RotateAttrs
          /\ \E j \in 2..Len(writer.curves[c].keys) :
                /\ FirstSource(writer.curves[c].keys[j].frame) > j - 1
                /\ writer.curves[c].keys[j].value #
                       ThreadedAll(writer.curves[c].attribute_name,
                                   FirstSource(writer.curves[c].keys[j].frame))


-----------------------------------------------------------------------------
(* Properties of the axis corrections (checked under SpecKeys). *)

\* the identity transform
IdentityTransform == Transform(Vector3(0, 0, 0), Vector4(0, 0, 0, 1), Vector3(1, 1, 1))

\* the curve of the run's bone for an attribute
KeyCurve(attr) ==
    writer.curves[CHOOSE c \in 1..Len(writer.curves) : writer.curves[c].attribute_name = attr]

\* C11: the root correction of the identity transform has translation
\* (0,0,0), scale (1,1,1) and a rotation that quat_to_euler decomposes to
\* (90, 0, -90) degrees.
C11_RootCorrectionOfIdentity ==
    (pc = "written" /\ KeyIsRoot /\ SourceValues[1] = IdentityTransform) =>
        /\ apply_root_correction(SourceValues[1]).translation = Vector3(0, 0, 0)
        /\ apply_root_correction(SourceValues[1]).scale = Vector3(1, 1, 1)
        /\ quat_to_euler(apply_root_correction(SourceValues[1]).rotation) = Vector3(90, 0, -90)

\* what the code computes for it: translation and scale as stated, and the
\* gimbal-lock branch of quat_to_euler giving (90, 90, 0)
C11_RootCorrectionOfIdentityAsComputed ==
    (pc = "written" /\ KeyIsRoot /\ SourceValues[1] = IdentityTransform) =>
        /\ apply_root_correction(SourceValues[1]).translation = Vector3(0, 0, 0)
        /\ apply_root_correction(SourceValues[1]).scale = Vector3(1, 1, 1)
        /\ quat_to_euler(apply_root_correction(SourceValues[1]).rotation) = Vector3(90, 90, 0)
        /\ KeyCurve("rotateX").keys[1].value = 90
        /\ KeyCurve("rotateY").keys[1].value = 90
        /\ KeyCurve("rotateZ").keys[1].value = 0

\* the root bone's first source frame is the identity and its curves are written
C11_Witness ==
    /\ pc = "written"
    /\ KeyIsRoot
    /\ SourceValues[1] = IdentityTransform
    /\ KeyCurve("rotateY").keys[1].value = 90

\* what C12 states a root-bone channel carries for a raw transform
RootExpected(attr, tr) ==
    CASE attr = "translateX" -> tr.translation.x
      [] attr = "translateY" -> -tr.translation.z
      [] attr = "translateZ" -> tr.translation.y
      [] attr = "scaleX" -> tr.scale.x
      [] attr = "scaleY" -> tr.scale.y
      [] attr = "scaleZ" -> tr.scale.z

\* the translation column of R_X_90 * M_raw * R_Z_N90
CorrectedColumn(tr) ==
    LET M == matmul(matmul(R_X_90, build_matrix4x4(tr.translation, tr.rotation, tr.scale)),
                    R_Z_N90)
    IN Vector3(M[1][4], M[2][4], M[3][4])

\* C12: for the root bone, every translate key carries the component of
\* (t.x, -t.z, t.y) of the raw transform of its source frame, which is the
\* translation column of R_X_90 * M_raw * R_Z_N90 whatever r and s are, and
\* every scale key carries the raw scale component of its own axis.
C12_RootTranslationAndScale ==
    (pc = "written" /\ KeyIsRoot) =>
        /\ \A attr \in LinearAttrs :
              \A j \in 1..Len(KeyCurve(attr).keys) :
                  KeyCurve(attr).keys[j].value =
                      RootExpected(attr, SourceValues[FirstSource(KeyCurve(attr).keys[j].frame) + 1])
        /\ \A k \in 1..Len(SourceValues) :
              /\ CorrectedColumn(SourceValues[k]) =
                     Vector3(SourceValues[k].translation.x, -SourceValues[k].translation.z,
                             SourceValues[k].translation.y)
              /\ SourceValues[k].translation = Vector3(0, 10, 0)
                     => apply_root_correction(SourceValues[k]).translation = Vector3(0, 0, 10)

\* the root bone's first frame is (0,10,0) with a rotation and a scale that
\* are not the identity, and its translateZ key is 10
C12_Witness ==
    /\ pc = "written"
    /\ KeyIsRoot
    /\ SourceValues[1].translation = Vector3(0, 10, 0)
    /\ SourceValues[1].rotation # Vector4(0, 0, 0, 1)
    /\ SourceValues[1].scale = Vector3(2, 3, 4)
    /\ KeyCurve("translateZ").keys[1].value = 10
    /\ KeyCurve("scaleY").keys[1].value = 3

\* what C13 states a non-root channel reads from a raw transform: translate
\* (t.x, t.z, -t.y), scale (s.x, s.z, s.y), rotate (e.x, e.z, -e.y) with e
\* the raw XYZ Euler triple
NonRootExpected(attr, tr) ==
    CASE attr = "translateX" -> tr.translation.x
      [] attr = "translateY" -> tr.translation.z
      [] attr = "translateZ" -> -tr.translation.y
      [] attr = "scaleX" -> tr.scale.x
      [] attr = "scaleY" -> tr.scale.z
      [] attr = "scaleZ" -> tr.scale.y
      [] attr = "rotateX" -> quat_to_euler(tr.rotation).x
      [] attr = "rotateY" -> quat_to_euler(tr.rotation).z
      [] attr = "rotateZ" -> -quat_to_euler(tr.rotation).y

\* the raw transform of the source frame a key was taken from
KeySource(key) == SourceValues[FirstSource(key.frame) + 1]

NonRootTranslation(tr) ==
    Vector3(translation_value(tr, "x", FALSE), translation_value(tr, "y", FALSE),
            translation_value(tr, "z", FALSE))
RootTranslation(tr) ==
    Vector3(translation_value(apply_root_correction(tr), "x", TRUE),
            translation_value(apply_root_correction(tr), "y", TRUE),
            translation_value(apply_root_correction(tr), "z", TRUE))

\* the source frames with identity rotation and unit scale
PlainFrames ==
    {k \in 1..Len(SourceValues) :
        /\ SourceValues[k].rotation = Vector4(0, 0, 0, 1)
        /\ SourceValues[k].scale = Vector3(1, 1, 1)}

-----------------------------------------------------------------------------
(* Properties of the curve assembler (checked under Spec, where bone names *)
(* are distinct in the skeleton and in the dataset).                       *)

\* the bones of the skeleton file, none when it has no 'bones' key
SkeletonBones ==
    IF "bones" \in DOMAIN skeleton_data THEN skeleton_data.bones ELSE <<>>

\* the resolver's hierarchy order of the skeleton's bones
HierarchyOrder == topological_sort_bones(SkeletonBones)

\* the names of all nodes of the dataset, of every group, in dataset order
DatasetOrder ==
    Concat([g \in 1..Len(anim_data.groups) |->
               [n \in 1..Len(anim_data.groups[g].nodes) |->
                   anim_data.groups[g].nodes[n].name]])

\* the names of the nodes of the dataset's Transform groups
TransformNodeNames ==
    UNION { {anim_data.groups[g].nodes[n].name : n \in 1..Len(anim_data.groups[g].nodes)} :
            g \in {h \in 1..Len(anim_data.groups) :
                      anim_data.groups[h].group_type = "Transform"} }

\* the node of the Transform groups that has the given name
DatasetNode(name) ==
    CHOOSE nd \in UNION { Range(anim_data.groups[g].nodes) :
                          g \in {h \in 1..Len(anim_data.groups) :
                                    anim_data.groups[h].group_type = "Transform"} } :
        nd.name = name

\* the emission sequence, the bone an item belongs to, the kinds of items
Emission == writer.write_order
ItemBone(item) == IF item[1] = "curve" THEN item[2].object_name ELSE item[2]
IsCurveOf(item, name) == item[1] = "curve" /\ ItemBone(item) = name
IsPlaceholderOf(item, name) == item[1] = "empty" /\ ItemBone(item) = name
ItemsOf(name) == {i \in 1..Len(Emission) : ItemBone(Emission[i]) = name}
CurvesOf(name) == {i \in 1..Len(Emission) : IsCurveOf(Emission[i], name)}
PlaceholdersOf(name) == {i \in 1..Len(Emission) : IsPlaceholderOf(Emission[i], name)}

\* a node with no track named "Transform", or whose "Transform" tracks all
\* have an empty value sequence
NoTransformValues(node) ==
    \A t \in 1..Len(node.tracks) :
        node.tracks[t].name = "Transform" => Len(node.tracks[t].values) = 0

\* C7: once the conversion is written, every bone that was handed to
\* _process_bone and whose node has no "Transform" track, or an empty one, has
\* exactly one placeholder item in the emission sequence and no curve item.
C7_PlaceholderForEmptyTrack ==
    pc = "written" =>
        \A k \in 1..Len(processed) :
            NoTransformValues(DatasetNode(processed[k])) =>
                /\ Cardinality(PlaceholdersOf(processed[k])) = 1
                /\ CurvesOf(processed[k]) = {}

\* the part of C7 the code does keep: such a bone gets no curve item
C7_NoCurveForEmptyTrack ==
    pc = "written" =>
        \A k \in 1..Len(processed) :
            NoTransformValues(DatasetNode(processed[k])) => CurvesOf(processed[k]) = {}

\* a bone with an empty "Transform" track went through _process_bone
C7_Witness ==
    /\ pc = "written"
    /\ \E k \in 1..Len(processed) :
          /\ NoTransformValues(DatasetNode(processed[k]))
          /\ DatasetNode(processed[k]).tracks # <<>>
          /\ processed[k] \in Range(bone_order)

\* the curve items of "Root" for the two-value sample track at 60 fps
RootExampleAttrs ==
    <<"translateX", "translateY", "translateZ", "rotateX", "rotateY", "rotateZ",
      "scaleX", "scaleY", "scaleZ">>

\* C8: once the conversion is written, every skeleton bone with no node in any
\* Transform group has exactly one placeholder item and no other item, every
\* item of a bone earlier in hierarchy order lies before the placeholder and
\* every item of a later bone after it; for the skeleton ["Root","ArmL"] and a
\* dataset with only an animated "Root", the emission sequence is the nine
\* curve items of "Root" followed by the placeholder of "ArmL".
C8_PlaceholderForMissingNode ==
    pc = "written" =>
        /\ \A k \in 1..Len(HierarchyOrder) :
              HierarchyOrder[k] \notin TransformNodeNames =>
                  /\ Cardinality(PlaceholdersOf(HierarchyOrder[k])) = 1
                  /\ ItemsOf(HierarchyOrder[k]) = PlaceholdersOf(HierarchyOrder[k])
                  /\ \A j \in 1..Len(HierarchyOrder) :
                        \A i \in ItemsOf(HierarchyOrder[j]),
                           e \in PlaceholdersOf(HierarchyOrder[k]) :
                            /\ j < k => i < e
                            /\ j > k => i > e
        /\ Len(writer.empty_bones) =
               Cardinality({j \in 1..Len(HierarchyOrder) :
                               HierarchyOrder[j] \notin TransformNodeNames})
        /\ (/\ bone_names(SkeletonBones) = <<"Root", "ArmL">>
            /\ TransformNodeNames = {"Root"}
            /\ ~NoTransformValues(DatasetNode("Root")))
           => /\ Len(Emission) = 10
              /\ \A i \in 1..9 : /\ IsCurveOf(Emission[i], "Root")
                                 /\ Emission[i][2].attribute_name = RootExampleAttrs[i]
              /\ Emission[10] = <<"empty", "ArmL">>
              /\ output.items = Emission

\* the example of C8 written, and a placeholder between two animated bones
C8_Witness ==
    /\ pc = "written"
    /\ \/ /\ bone_names(SkeletonBones) = <<"Root", "ArmL">>
          /\ TransformNodeNames = {"Root"}
          /\ Len(Emission) = 10
          /\ Emission[10] = <<"empty", "ArmL">>
       \/ /\ HierarchyOrder = <<"Trans", "Root", "ArmL">>
          /\ CurvesOf("Trans") # {} /\ CurvesOf("ArmL") # {}
          /\ PlaceholdersOf("Root") # {}

\* whether skeleton bone a (list index, 0-based) is a proper ancestor of bone
\* d, following parent_index for at most `fuel` steps
RECURSIVE IsAncestor(_, _, _)
IsAncestor(a, d, fuel) ==
    /\ fuel > 0
    /\ has_parent(SkeletonBones[d + 1])
    /\ SkeletonBones[d + 1].parent_index \in 0..(Len(SkeletonBones) - 1)
    /\ \/ SkeletonBones[d + 1].parent_index = a
       \/ IsAncestor(a, SkeletonBones[d + 1].parent_index, fuel - 1)

\* whether the parent chain of skeleton bone i ends at a bone without
\* parent_index
RECURSIVE ReachesRoot(_, _)
ReachesRoot(i, fuel) ==
    IF ~has_parent(SkeletonBones[i + 1]) THEN TRUE
    ELSE IF fuel = 0 \/ SkeletonBones[i + 1].parent_index \notin 0..(Len(SkeletonBones) - 1)
         THEN FALSE
    ELSE ReachesRoot(SkeletonBones[i + 1].parent_index, fuel - 1)

ChannelRank(attr) == PosOf(RootExampleAttrs, attr)

\* the curve items of a bone, in emission order
RECURSIVE CurveSeq(_, _)
CurveSeq(name, n) ==
    IF n = 0 THEN <<>>
    ELSE IF IsCurveOf(Emission[n], name)
         THEN Append(CurveSeq(name, n - 1), Emission[n][2])
         ELSE CurveSeq(name, n - 1)

\* the bones that have curve items
CurveBones == {ItemBone(Emission[i]) : i \in {j \in 1..Len(Emission) : Emission[j][1] = "curve"}}

\* C10: at every point of convert and for every bone, the k-th curve of the
\* bone (k = 1, 2, ...) carries index k - 1, the curves' attributes follow the
\* fixed channel order, and every emitted curve has at least one key.
C10_LocalContiguousIndices ==
    \A name \in CurveBones :
        \A k \in 1..Len(CurveSeq(name, Len(Emission))) :
            /\ CurveSeq(name, Len(Emission))[k].index = k - 1
            /\ Len(CurveSeq(name, Len(Emission))[k].keys) > 0
            /\ CurveSeq(name, Len(Emission))[k].attribute_name \in Range(RootExampleAttrs)
            /\ k > 1 => ChannelRank(CurveSeq(name, Len(Emission))[k - 1].attribute_name)
                           < ChannelRank(CurveSeq(name, Len(Emission))[k].attribute_name)

\* two bones have curves, the second bone's indices start again at 0
C10_Witness ==
    /\ pc = "written"
    /\ \E i \in 2..Len(Emission) :
          /\ Emission[i][1] = "curve" /\ Emission[i - 1][1] = "curve"
          /\ Emission[i][2].index = 0
          /\ Emission[i - 1][2].index = 8
          /\ Emission[i][2].object_name # Emission[i - 1][2].object_name


-----------------------------------------------------------------------------
(* Properties of the writer (checked under SpecWriter). *)

\* the key frames of the curves the writer holds
HeldFrames ==
    UNION { {writer.curves[c].keys[j].frame : j \in 1..Len(writer.curves[c].keys)} :
            c \in 1..Len(writer.curves) }

\* whether the writer holds a curve whose key frames are exactly lo and hi
HoldsSpan(lo, hi) ==
    \E c \in 1..Len(writer.curves) :
        {writer.curves[c].keys[j].frame : j \in 1..Len(writer.curves[c].keys)} = {lo, hi}

\* C15: the header's (startTime, endTime) is (0,0) when the writer holds no
\* curve, (0,1) when it holds curves of which none has a key, and otherwise
\* the least and the greatest key frame of its curves, whatever placeholders
\* were added; curves spanning [0,59] and [3,47] alone give (0,59).
C15_TimeRange ==
    pc = "emitted" =>
        /\ Len(writer.curves) = 0 => <<output.start_time, output.end_time>> = <<0, 0>>
        /\ (Len(writer.curves) > 0 /\ HeldFrames = {})
              => <<output.start_time, output.end_time>> = <<0, 1>>
        /\ HeldFrames # {} =>
              /\ output.start_time \in HeldFrames
              /\ output.end_time \in HeldFrames
              /\ \A f \in HeldFrames : output.start_time <= f /\ f <= output.end_time
        /\ (Len(writer.curves) = 2 /\ HoldsSpan(0, 59) /\ HoldsSpan(3, 47))
              => <<output.start_time, output.end_time>> = <<0, 59>>

\* the curve [3,47], a placeholder and the curve [0,59] were added in that
\* order and written with the range (0,59)
C15_Witness ==
    /\ pc = "emitted"
    /\ Len(writer.write_order) = 3
    /\ Len(writer.curves) = 2
    /\ writer.write_order[2][1] = "empty"
    /\ HoldsSpan(0, 59) /\ HoldsSpan(3, 47)
    /\ writer.curves[1].keys[1].frame = 3
    /\ output.start_time = 0 /\ output.end_time = 59


-----------------------------------------------------------------------------
(* Properties of the time unit (checked under SpecUnit). *)

\* the table of C16, rates in hundredths of a frame per second
TimeUnitTable ==
    { <<1500, "game">>, <<2400, "film">>, <<2500, "pal">>, <<2997, "ntsc">>,
      <<3000, "ntsc">>, <<4800, "show">>, <<5000, "palf">>, <<5994, "ntscf">>,
      <<6000, "ntscf">> }

\* the entries of the table at least distance from the target rate
NearestEntries ==
    {e \in TimeUnitTable :
        \A o \in TimeUnitTable : Abs(e[1] - maya_fps) <= Abs(o[1] - maya_fps)}

\* C16: once the converter is constructed, its time unit is the unit of a
\* table entry nearest to the target rate (so never a default outside the
\* nearest entries), and a rate equal to a table key has that key's unit.
C16_NearestTimeUnit ==
    pc # "new" =>
        /\ \E e \in NearestEntries : time_unit = e[2]
        /\ \A e \in TimeUnitTable : maya_fps = e[1] => time_unit = e[2]

\* of two nearest entries the code takes the one written first in the table
C16_TieTakesFirstKey ==
    pc # "new" =>
        \E e \in NearestEntries :
            /\ time_unit = e[2]
            /\ \A o \in NearestEntries : e[1] <= o[1]

\* 24.5 fps lies midway between 24 (film) and 25 (pal): the unit is film
C16_Witness ==
    /\ pc = "written"
    /\ maya_fps = 2450
    /\ Cardinality(NearestEntries) = 2
    /\ time_unit = "film"

-----------------------------------------------------------------------------
(* Properties of failing runs (checked under SpecLoad). *)

\* the skeleton file cannot be loaded, or the input file cannot be parsed
LoadingFails == io_raises(skeleton_data) \/ parse_raises(input_data)

\* every bone of bone_order went to _process_bone or got a placeholder, and
\* every node of the Transform groups went to _process_bone or is a bone
EveryBoneProcessed ==
    /\ bone_idx > Len(bone_order)
    /\ node_idx > Len(all_nodes)
    /\ \A b \in Range(bone_order) :
          b \in Range(processed) \/ <<"empty", b>> \in Range(writer.write_order)
    /\ \A n \in 1..Len(all_nodes) : all_nodes[n].name \in Range(processed)

\* C17: in a run whose skeleton cannot be loaded or whose dataset cannot be
\* parsed, write() never produces output, the run never gets to walking the
\* bones, and once it has ended main has returned 1; output exists only
\* when the skeleton was loaded, the dataset was parsed, every bone was
\* processed, and then main returns 0.
C17_NoOutputOnFailure ==
    /\ LoadingFails =>
          /\ output = <<>>
          /\ pc \in {"new", "constructed", "failed"}
          /\ exit_code \in {-1, 1}
          /\ pc = "failed" => exit_code = 1
    /\ pc = "failed" => LoadingFails /\ output = <<>> /\ exit_code = 1
    /\ output # <<>> =>
          /\ pc = "written"
          /\ ~LoadingFails
          /\ anim_data = parse_anim_data(input_data)
          /\ bone_order = load_skeleton_bone_order(skeleton_data)
          /\ EveryBoneProcessed
          /\ exit_code = 0

\* a run whose skeleton loaded two bones and whose input file then failed to
\* parse: main has returned 1 and nothing was written
C17_Witness ==
    /\ pc = "failed"
    /\ exit_code = 1
    /\ output = <<>>
    /\ ~io_raises(skeleton_data)
    /\ Len(bone_order) = 2
    /\ ~io_raises(input_data)
    /\ parse_raises(input_data)

\* the skeleton file decodes to a structure without a 'bones' key
LacksBones == ~io_raises(skeleton_data) /\ "bones" \notin DOMAIN skeleton_data

\* C18 (as stated): a decoded skeleton without the 'bones' key is fatal:
\* the run ends in failure at the constructor, no item is ever queued for
\* emission and nothing is written.
C18_MissingBonesIsFatal ==
    LacksBones =>
        /\ pc \in {"new", "failed"}
        /\ writer.write_order = <<>>
        /\ output = <<>>

\* C18 (as computed): a decoded skeleton without the 'bones' key gives an
\* empty bone_order and the run goes on; it fails only if the dataset cannot
\* be parsed, and otherwise every node of the Transform groups is handled as
\* a bone the skeleton does not know and main returns 0.
C18_MissingBonesGivesEmptyOrder ==
    LacksBones =>
        /\ bone_order = <<>>
        /\ pc = "failed" => parse_raises(input_data)
        /\ pc = "written" =>
              /\ exit_code = 0
              /\ processed = [n \in 1..Len(all_nodes) |-> all_nodes[n].name]
              /\ \A k \in 1..Len(output.items) : output.items[k][1] = "curve"

\* a finished run on a skeleton without 'bones': curves were written and
\* main returned 0
C18_Witness ==
    /\ LacksBones
    /\ pc = "written"
    /\ exit_code = 0
    /\ Len(output.items) > 0

-----------------------------------------------------------------------------
(* Properties of the dataset parser (checked under SpecLoad). *)

\* the keys _parse_track reads with data[...]
TrackKeys == {"name", "compensate_scale", "transform_flags", "values"}

\* the JSON tracks of the input file, as <<group, node, track>> positions
TrackPositions ==
    IF io_raises(input_data) \/ "groups" \notin DOMAIN input_data THEN {}
    ELSE { <<g, n, t>> \in (1..1) \X (1..2) \X (1..1) :
              /\ g <= Len(input_data.groups)
              /\ n <= Len(input_data.groups[g].nodes)
              /\ t <= Len(input_data.groups[g].nodes[n].tracks) }

JsonTrackAt(p) == input_data.groups[p[1]].nodes[p[2]].tracks[p[3]]
ParsedTrackAt(p) == anim_data.groups[p[1]].nodes[p[2]].tracks[p[3]]

\* the input file has every key the parser reads and only group kinds it
\* knows; the kinds of its tracks' values are free
CompleteInput ==
    /\ ~io_raises(input_data)
    /\ "groups" \in DOMAIN input_data
    /\ \A g \in 1..Len(input_data.groups) :
          input_data.groups[g].group_type \in {"Transform", "Visibility", "Material"}
    /\ TrackPositions # {}
    /\ \A p \in TrackPositions : TrackKeys \subseteq DOMAIN JsonTrackAt(p)

\* C19: a track whose values map has no "Transform" entry does not fail the
\* parse: an input file that is otherwise complete is parsed, that track
\* becomes a Track of the same name with no values, and each track that has
\* a "Transform" entry keeps its values, one Transform per entry.
C19_OtherKindGivesEmptyTrack ==
    CompleteInput =>
        /\ ~parse_raises(input_data)
        /\ pc = "failed" => io_raises(skeleton_data)
        /\ pc \in {"converting", "written"} =>
              \A p \in TrackPositions :
                 /\ ParsedTrackAt(p).name = JsonTrackAt(p).name
                 /\ IF "Transform" \in DOMAIN JsonTrackAt(p).values
                    THEN ParsedTrackAt(p).values = JsonTrackAt(p).values.Transform
                    ELSE ParsedTrackAt(p).values = <<>>

\* a finished run on a dataset whose node Root carries a track of booleans
\* and whose node ArmL carries a "Transform" track of two values: Root's
\* track was parsed to no values, ArmL's to two, and ArmL's curves were
\* written
C19_Witness ==
    /\ pc = "written"
    /\ CompleteInput
    /\ "Boolean" \in DOMAIN JsonTrackAt(<<1, 1, 1>>).values
    /\ ParsedTrackAt(<<1, 1, 1>>).values = <<>>
    /\ Len(ParsedTrackAt(<<1, 2, 1>>).values) = 2
    /\ \E k \in 1..Len(output.items) :
          output.items[k][1] = "curve" /\ output.items[k][2].object_name = "ArmL"

-----------------------------------------------------------------------------
(* Properties of the matrix helpers (checked under SpecMath). *)

\* q and r are the same unit quaternion up to sign, each given by a
\* multiple of itself: neither is zero and they are parallel
SameUpToSign(q, r) ==
    /\ norm2(q) # 0
    /\ norm2(r) # 0
    /\ \A a, b \in {"x", "y", "z", "w"} : q[a] * r[b] = q[b] * r[a]

\* the axis that row i of the rotation matrix of transform_in picks: the
\* column of its one entry that is not 0
RowAxis(i) ==
    CHOOSE j \in 1..3 : quat_rot_mat(transform_in.rotation)[i][j] # 0

\* the components of the scale of transform_in, by axis
ScaleIn == << transform_in.scale.x, transform_in.scale.y, transform_in.scale.z >>

\* C20 (as stated): decomposing the matrix built from a translation t, a
\* unit quaternion r and a positive scale s returns t, s, and r up to sign.
C20_DecomposeInvertsBuild ==
    pc = "decomposed" =>
        /\ decomposed.t = transform_in.translation
        /\ decomposed.s = transform_in.scale
        /\ SameUpToSign(decomposed.q, transform_in.rotation)

\* C20 (as computed): the translation and the quaternion (up to sign) come
\* back, and the scale comes back carried along the rows: component i of the
\* scale returned is the input scale along the axis that row i of the
\* rotation picks.  It is the input scale when the scale is uniform or the
\* rotation matrix is diagonal.
C20_DecomposeReturnsRowScale ==
    pc = "decomposed" =>
        /\ decomposed.t = transform_in.translation
        /\ SameUpToSign(decomposed.q, transform_in.rotation)
        /\ decomposed.s = Vector3(ScaleIn[RowAxis(1)], ScaleIn[RowAxis(2)], ScaleIn[RowAxis(3)])
        /\ (\/ ScaleIn[1] = ScaleIn[2] /\ ScaleIn[2] = ScaleIn[3]
            \/ \A i \in 1..3 : RowAxis(i) = i)
           => decomposed.s = transform_in.scale

\* a quarter turn about Z with scale (1, 2, 3) at translation (1, 2, 3): the
\* scale returned is (2, 1, 3)
C20_Witness ==
    /\ pc = "decomposed"
    /\ transform_in = Transform(Vector3(1, 2, 3), Vector4(0, 0, 1, 1), Vector3(1, 2, 3))
    /\ decomposed.t = Vector3(1, 2, 3)
    /\ decomposed.s = Vector3(2, 1, 3)
    /\ SameUpToSign(decomposed.q, Vector4(0, 0, 1, 1))

-----------------------------------------------------------------------------
(* Properties of malformed rotation data (checked under SpecMalformed: one *)
(* bone with one "Transform" track).                                       *)

ZeroQuat(tr) == ~has_nan(tr.rotation) /\ norm2(tr.rotation) = 0
NaNQuat(tr) == has_nan(tr.rotation)

\* the source transform a key of the bone's curves was made from
MalformedSource(key) == SourceValues[FirstSource(key.frame) + 1]

\* the rotation curves written, as positions in writer.curves
RotationCurves ==
    { c \in 1..Len(writer.curves) : writer.curves[c].attribute_name \in RotateAttrs }

\* C21 (as stated): no rotation key is NaN, and a key made from a zero
\* quaternion or from a quaternion with a NaN component carries the fallback
\* angle 0 (up to whole turns of the continuity correction).
C21_MalformedRotationAbsorbed ==
    pc = "written" =>
        \A c \in RotationCurves :
            \A j \in 1..Len(writer.curves[c].keys) :
                LET key == writer.curves[c].keys[j]
                IN /\ key.value # NaN
                   /\ (ZeroQuat(MalformedSource(key)) \/ NaNQuat(MalformedSource(key)))
                         => key.value % FullTurn = 0

\* C21 (as computed): a key made from a zero quaternion carries the
\* fallback angle 0; a key made from a quaternion with a NaN component is
\* NaN on all three axes; no other rotation key is NaN.
C21_ZeroAbsorbedNaNPropagated ==
    pc = "written" =>
        \A c \in RotationCurves :
            \A j \in 1..Len(writer.curves[c].keys) :
                LET key == writer.curves[c].keys[j]
                IN /\ ZeroQuat(MalformedSource(key)) => key.value = 0
                   /\ NaNQuat(MalformedSource(key)) <=> key.value = NaN

\* the non-root bone ArmL at 60 fps with the identity, a NaN quaternion and
\* a quarter turn about Z: its rotateY keys are 0, NaN, 90
C21_Witness ==
    /\ pc = "written"
    /\ maya_fps = 100 * SourceFps
    /\ KeyNode.name = "ArmL"
    /\ Len(SourceValues) = 3
    /\ NaNQuat(SourceValues[2])
    /\ \E c \in RotationCurves :
          /\ writer.curves[c].attribute_name = "rotateY"
          /\ [j \in 1..Len(writer.curves[c].keys) |-> writer.curves[c].keys[j].value]
                = <<0, NaN, 90>>

-----------------------------------------------------------------------------
(* Properties of what contributes curves (checked under Spec). *)

\* every name a bone of the skeleton or a node of the dataset has
AllNames == Range(bone_names(SkeletonBones)) \cup Range(DatasetOrder)

\* the node has a track named "Transform" that holds values
HasTransformValues(node) ==
    \E t \in 1..Len(node.tracks) :
        node.tracks[t].name = "Transform" /\ Len(node.tracks[t].values) > 0

\* C22: once the conversion is written, a name whose nodes all lie in
\* Visibility or Material groups has no curve, and has exactly one
\* placeholder when it is a bone of the skeleton; a node of a Transform group
\* whose tracks all have other names than "Transform" has no curve, whatever
\* values they hold; and every curve belongs to a node of a Transform group
\* that has a "Transform" track with values.
C22_OnlyTransformContributes ==
    pc = "written" =>
        \A name \in AllNames :
            /\ name \notin TransformNodeNames =>
                  /\ CurvesOf(name) = {}
                  /\ name \in Range(bone_order) => Cardinality(PlaceholdersOf(name)) = 1
            /\ name \in TransformNodeNames =>
                  (CurvesOf(name) # {} <=> HasTransformValues(DatasetNode(name)))

\* a written run whose first group is a Material group holding a skeleton
\* bone's node with a "Transform" track of two values, and whose Transform
\* group holds a node with a "Visibility" track with a value: the first has
\* a placeholder and no curve, the second no curve
C22_Witness ==
    /\ pc = "written"
    /\ Len(anim_data.groups) = 2
    /\ anim_data.groups[1].group_type = "Material"
    /\ HasTransformValues(anim_data.groups[1].nodes[1])
    /\ anim_data.groups[1].nodes[1].name \in Range(bone_order)
    /\ Cardinality(PlaceholdersOf(anim_data.groups[1].nodes[1].name)) = 1
    /\ CurvesOf(anim_data.groups[1].nodes[1].name) = {}
    /\ Len(anim_data.groups[2].nodes) = 1
    /\ anim_data.groups[2].nodes[1].tracks # <<>>
    /\ anim_data.groups[2].nodes[1].tracks[1].name = "Visibility"
    /\ Len(anim_data.groups[2].nodes[1].tracks[1].values) > 0
    /\ CurvesOf(anim_data.groups[2].nodes[1].name) = {}

-----------------------------------------------------------------------------
(* The reference order of the resolver (checked under SpecSort). *)

\* the indices of a set, ascending: original list order
Ascending(S) ==
    LET F[T \in SUBSET S] ==
            IF T = {} THEN <<>>
            ELSE LET m == CHOOSE x \in T : \A y \in T : x <= y
                 IN <<m>> \o F[T \ {m}]
    IN F[S]

\* the bones that name list index i as their parent
RefChildren(i) ==
    {j \in 0..(Len(Bones) - 1) : has_parent(Bones[j + 1]) /\ Bones[j + 1].parent_index = i}

\* the bones without parent_index
RefRoots == {j \in 0..(Len(Bones) - 1) : ~has_parent(Bones[j + 1])}

\* pre-order with an explicit stack: the bone on top is taken unless it was
\* visited, and its children are put on top in list order
RECURSIVE RefWalk(_, _)
RefWalk(stack, out) ==
    IF stack = <<>> THEN out
    ELSE IF Head(stack) \in Range(out) THEN RefWalk(Tail(stack), out)
    ELSE RefWalk(Ascending(RefChildren(Head(stack))) \o Tail(stack),
                 Append(out, Head(stack)))

\* the reference sequence: the walk from the roots, then every bone the
\* walk never visited, in list order
ReferenceOrder ==
    LET walk == RefWalk(Ascending(RefRoots), <<>>)
        rest == Ascending((0..(Len(Bones) - 1)) \ Range(walk))
    IN [k \in 1..(Len(walk) + Len(rest)) |-> Bones[(walk \o rest)[k] + 1].name]

\* C23: once the constructor has run, bone_order is the reference sequence:
\* the depth-first pre-order from each bone without parent_index in list
\* order, children in list order, then the bones never visited in list order.
C23_ResolverEqualsReference ==
    pc # "new" => bone_order = ReferenceOrder

\* the root listed last with the first bone as its child, and a bone that is
\* its own parent: the root, its child, then the orphan
C23_Witness ==
    /\ pc = "constructed"
    /\ Len(Bones) = 3
    /\ has_parent(Bones[1]) /\ Bones[1].parent_index = 2
    /\ has_parent(Bones[2]) /\ Bones[2].parent_index = 1
    /\ ~has_parent(Bones[3])
    /\ bone_order = <<Bones[3].name, Bones[1].name, Bones[2].name>>

-----------------------------------------------------------------------------
(* Properties of the continuity state (checked under SpecBones: two        *)
(* non-root bones, each with one "Transform" track).                       *)

\* the values of the track of the bone named
BoneValues(name) == DatasetNode(name).tracks[1].values

\* the keys of the bone's curve of the attribute, as written
BoneKeys(name, attr) ==
    TheOnly({ writer.curves[c].keys : c \in { d \in 1..Len(writer.curves) :
                  /\ writer.curves[d].object_name = name
                  /\ writer.curves[d].attribute_name = attr } })

\* the Euler angle of a non-root bone's axis before the correction, read
\* from the bone's own source frame that a key's target frame comes from
RawAngle(name, attr, frame) ==
    LET i == CHOOSE h \in 0..(Len(BoneValues(name)) - 1) :
                 /\ TargetFrame(h) = frame
                 /\ \A g \in 0..(h - 1) : TargetFrame(g) # frame
        e == quat_to_euler(BoneValues(name)[i + 1].rotation)
    IN CASE attr = "rotateX" -> e.x
         [] attr = "rotateY" -> e.z
         [] OTHER -> -e.y

\* v is c moved by whole turns to within a half turn of p, and c itself
\* when c already is
Continues(v, c, p) ==
    /\ (v - c) % FullTurn = 0
    /\ Abs(v - p) <= HalfTurn
    /\ Abs(c - p) <= HalfTurn => v = c

\* C24: once the conversion is written, for each bone and each rotation
\* axis the first key is the uncorrected angle of the bone's source frame 0,
\* and every later key is its own uncorrected angle continued from the key
\* before it on the same curve; nothing of another bone or another axis
\* enters, so the keys are the same in both processing orders.
C24_ContinuityLocalToBoneAndAxis ==
    pc = "written" =>
        \A name \in {"ArmL", "ArmR"}, attr \in RotateAttrs :
            \A keys \in {BoneKeys(name, attr)} :
                /\ keys[1].frame = 0
                /\ keys[1].value = RawAngle(name, attr, 0)
                /\ \A j \in 2..Len(keys) :
                      Continues(keys[j].value, RawAngle(name, attr, keys[j].frame),
                                keys[j - 1].value)

\* at 60 fps the bone processed first turns from a half turn to a quarter
\* turn backwards, which the correction writes as 270, and the bone
\* processed second starts at a quarter turn backwards: its first key is -90
C24_Witness ==
    /\ pc = "written"
    /\ maya_fps = 100 * SourceFps
    /\ bone_order = <<"ArmR", "ArmL">>
    /\ Len(BoneKeys("ArmR", "rotateY")) = 2
    /\ [j \in 1..2 |-> BoneKeys("ArmR", "rotateY")[j].value] = <<180, 270>>
    /\ BoneKeys("ArmL", "rotateY")[1].value = -90

-----------------------------------------------------------------------------
(* Properties of the emission sequence (checked under SpecWriter). *)

\* C25: every step of the writer leaves the items already in write_order in
\* place; a step that adds a curve or an empty bone extends write_order by
\* exactly one item, at the end, which is the curve or the bone added; no
\* other step changes write_order; and write() emits the items in the order
\* of write_order and leaves the writer as it was.
C25_AppendOnlyThenReadOnly ==
    [][ /\ Len(writer'.write_order) >= Len(writer.write_order)
        /\ SubSeq(writer'.write_order, 1, Len(writer.write_order)) = writer.write_order
        /\ Len(writer'.curves) > Len(writer.curves) =>
              writer'.write_order =
                  Append(writer.write_order,
                         <<"curve", writer'.curves[Len(writer'.curves)]>>)
        /\ Len(writer'.empty_bones) > Len(writer.empty_bones) =>
              writer'.write_order =
                  Append(writer.write_order,
                         <<"empty", writer'.empty_bones[Len(writer'.empty_bones)]>>)
        /\ (/\ Len(writer'.curves) <= Len(writer.curves)
            /\ Len(writer'.empty_bones) <= Len(writer.empty_bones))
              => writer'.write_order = writer.write_order
        /\ pc' = "emitted" /\ pc = "writer" =>
              /\ writer' = writer
              /\ output'.items = writer.write_order
      ]_vars

\* a curve, an empty bone and a second curve were added in that order and
\* emitted in that order
C25_Witness ==
    /\ pc = "emitted"
    /\ Len(writer.write_order) = 3
    /\ [k \in 1..3 |-> writer.write_order[k][1]] = <<"curve", "empty", "curve">>
    /\ Len(writer.curves) = 2
    /\ writer.write_order[1][2] = writer.curves[1]
    /\ writer.write_order[3][2] = writer.curves[2]
    /\ output.items = writer.write_order

-----------------------------------------------------------------------------
(* Properties of the parsed dataset (checked under SpecKeys). *)

-----------------------------------------------------------------------------
(* Properties of the writer's two curve lists (checked under SpecWriter). *)

\* the curves of the curve items of a write order, in that order
RECURSIVE CurveItems(_)
CurveItems(order) ==
    IF order = <<>> THEN <<>>
    ELSE IF Head(order)[1] = "curve" THEN <<Head(order)[2]>> \o CurveItems(Tail(order))
    ELSE CurveItems(Tail(order))

\* C27: after every sequence of add_curve, add_empty_bone and clear_curves
\* calls, the curves that get_curve_count, get_keyframe_count and the
\* header's time range are computed from are the curves of the curve items
\* of write_order, in the same order, and so is what write() then emits.
C27_CountedCurvesAreEmittedCurves ==
    /\ writer.curves = CurveItems(writer.write_order)
    /\ get_curve_count(writer) = Len(CurveItems(writer.write_order))
    /\ get_keyframe_count(writer) = key_total(CurveItems(writer.write_order))
    /\ pc = "emitted" =>
          <<output.start_time, output.end_time>> =
              calculate_time_range([writer EXCEPT !.curves = CurveItems(output.items)])

\* what the code keeps: the counted curves are the last curves of the
\* emitted ones, the curves added since the last clear_curves
C27_CountedCurvesEndEmittedCurves ==
    /\ get_curve_count(writer) <= Len(CurveItems(writer.write_order))
    /\ writer.curves =
          SubSeq(CurveItems(writer.write_order),
                 Len(CurveItems(writer.write_order)) - Len(writer.curves) + 1,
                 Len(CurveItems(writer.write_order)))

\* a curve with the keys [0,59] was added and clear_curves called: the file
\* is written with the curve in it, under a header range of (0,0), and the
\* writer counts no curve and no key
C27_Witness ==
    /\ pc = "emitted"
    /\ Len(output.items) = 1
    /\ output.items[1][1] = "curve"
    /\ Len(output.items[1][2].keys) = 2
    /\ get_curve_count(writer) = 0
    /\ get_keyframe_count(writer) = 0
    /\ <<output.start_time, output.end_time>> = <<0, 0>>


-----------------------------------------------------------------------------
(* Properties of a bone's nine curves (checked under Spec). *)

\* the key frames of a curve, in key order
FramesOf(curve) == [j \in 1..Len(curve.keys) |-> curve.keys[j].frame]

\* C28: once the conversion is written, every node of a Transform group that
\* has a "Transform" track with at least one value has exactly nine curve
\* items; in emission order they carry the indices 0..8 and the attributes
\* translateX, translateY, translateZ, rotateX, rotateY, rotateZ, scaleX,
\* scaleY, scaleZ, and all nine have the same sequence of key frames.
C28_NineCurvesSameFrames ==
    pc = "written" =>
        \A name \in TransformNodeNames :
            HasTransformValues(DatasetNode(name)) =>
                /\ Cardinality(CurvesOf(name)) = 9
                /\ \A k \in 1..9 :
                      /\ CurveSeq(name, Len(Emission))[k].index = k - 1
                      /\ CurveSeq(name, Len(Emission))[k].attribute_name = RootExampleAttrs[k]
                      /\ FramesOf(CurveSeq(name, Len(Emission))[k])
                            = FramesOf(CurveSeq(name, Len(Emission))[1])

\* a written run at 30 frames per second with two bones that both have a
\* "Transform" track of two values: eighteen curves, the second source frame
\* of each bone dropped from all nine of its curves
C28_Witness ==
    /\ pc = "written"
    /\ maya_fps = 3000
    /\ Cardinality(TransformNodeNames) = 2
    /\ \A name \in TransformNodeNames : HasTransformValues(DatasetNode(name))
    /\ Len(writer.curves) = 18
    /\ \A c \in 1..18 : FramesOf(writer.curves[c]) = <<0>>
    /\ writer.curves[9].index = 8 /\ writer.curves[10].index = 0


-----------------------------------------------------------------------------
(* Properties of final_frame_index (checked under SpecFinal). *)

\* the target frames of the source frames of the bone's track
TargetFrames == {TargetFrame(i) : i \in 0..(Len(SourceValues) - 1)}

\* C29: the emission sequence of a written conversion is the one the same
\* dataset gives under every other final_frame_index, and every curve has
\* one key per distinct target frame of the source frames 0..Len(values)-1,
\* whatever final_frame_index is.
C29_FinalFrameIndexIgnored ==
    pc = "written" =>
        /\ \A final \in FinalFrames :
              Emission = process_bone(new_writer, KeyNode, final, maya_fps).write_order
        /\ Len(Emission) = 9
        /\ \A i \in 1..Len(Emission) :
              /\ Emission[i][1] = "curve"
              /\ Len(Emission[i][2].keys) = Cardinality(TargetFrames)

\* a written run at 60 frames per second of a track of three values whose
\* dataset says final_frame_index 0: every curve has three keys
C29_Witness ==
    /\ pc = "written"
    /\ maya_fps = 6000
    /\ anim_data.final_frame_index = 0
    /\ Len(SourceValues) = 3
    /\ Len(Emission) = 9
    /\ \A i \in 1..9 : Len(Emission[i][2].keys) = 3


-----------------------------------------------------------------------------
(* Properties of the key frames of a curve (checked under SpecKeys). *)

\* C30: at every frame rate above 0, every curve the converter has added
\* has its first key at frame 0 and strictly increasing key frames, and a
\* written conversion that holds a curve has the header startTime 0.
C30_FramesStartAtZeroAndIncrease ==
    maya_fps > 0 =>
        /\ \A c \in 1..Len(writer.curves) :
              /\ Len(writer.curves[c].keys) > 0
              /\ writer.curves[c].keys[1].frame = 0
              /\ \A j \in 2..Len(writer.curves[c].keys) :
                    writer.curves[c].keys[j - 1].frame < writer.curves[c].keys[j].frame
        /\ (pc = "written" /\ Len(writer.curves) > 0) => output.start_time = 0

\* a written run at 120 frames per second of a track of three values: the
\* keys of every curve are at frames 0, 2 and 4, the header range is (0,4)
C30_Witness ==
    /\ pc = "written"
    /\ maya_fps = 12000
    /\ Len(writer.curves) = 9
    /\ \A c \in 1..9 : FramesOf(writer.curves[c]) = <<0, 2, 4>>
    /\ output.start_time = 0
    /\ output.end_time = 4

=============================================================================
